---- MODULE Spec2Model ----
(***************************************************************************)
(* Model of the account router (src/server/routers/account.ts) over the    *)
(* SQLite store (src/lib/db/index.ts).                                     *)
(*                                                                         *)
(* Each request is a call slot.  A handler is cut at its `await`s: one     *)
(* action is one store statement together with the handler code that runs  *)
(* in the same synchronous segment.  The callback passed to                *)
(* sqlite.transaction is synchronous and is one action.                    *)
(*                                                                         *)
(* Money is kept in integer cents; the model covers amounts and balances   *)
(* far below 2^53 / 100, where every 2-decimal value has its own double    *)
(* and round(balance + amount, 2) is exact.                                *)
(***************************************************************************)
EXTENDS Integers, Sequences, FiniteSets, TLC

\* ---------------------------------------------------------------- bounds
NumCalls == 2
MaxClock == 2
MaxAcctNo == 3
\* the draws the allocation specification counts before it stops counting
RetryCeiling == 2

Procs == 1..NumCalls
Users == {"u1", "u2"}
NoUser == "none"
\* what a context may hold as its user
Callers == Users \cup {NoUser}
AccountTypes == {"checking", "savings"}
AcctNumbers == 1..MaxAcctNo

\* --------------------------------------------------------- small helpers
Last(s) == s[Len(s)]

RECURSIVE SeqSum(_)
SeqSum(s) == IF s = <<>> THEN 0 ELSE s[1] + SeqSum(Tail(s))

\* .get(): the first matching row, as a sequence of length 0 or 1
GetFirst(rows) == IF rows = <<>> THEN <<>> ELSE <<rows[1]>>

\* ------------------------------------------------------ amount pipeline
Digits == {"0", "1", "2", "3", "4", "5", "6", "7", "8", "9"}
DigitVal(c) ==
    CASE c = "0" -> 0 [] c = "1" -> 1 [] c = "2" -> 2 [] c = "3" -> 3
      [] c = "4" -> 4 [] c = "5" -> 5 [] c = "6" -> 6 [] c = "7" -> 7
      [] c = "8" -> 8 [] c = "9" -> 9

AllDigits(s) == \A i \in 1..Len(s) : s[i] \in Digits
DigitChar(d) == <<"0", "1", "2", "3", "4", "5", "6", "7", "8", "9">>[d + 1]

\* String.prototype.trim on a sequence of characters
RECURSIVE TrimLeft(_)
TrimLeft(s) == IF s # <<>> /\ s[1] = " " THEN TrimLeft(Tail(s)) ELSE s
RECURSIVE TrimRight(_)
TrimRight(s) ==
    IF s # <<>> /\ Last(s) = " " THEN TrimRight(SubSeq(s, 1, Len(s) - 1)) ELSE s
Trim(s) == TrimRight(TrimLeft(s))

\* the preprocess step: a string is trimmed, a number arrives as String(val)
Preprocess(raw) == IF raw.type = "string" THEN Trim(raw.text) ELSE raw.text

\* an integer part that may start with zeros: \d+
IsIntPartLeadingZeros(s) ==
    /\ s # <<>>
    /\ AllDigits(s)

\* (?:0|[1-9]\d*)
IsIntPart(s) ==
    /\ s # <<>>
    /\ AllDigits(s)
    /\ (s[1] = "0" => Len(s) = 1)

\* (?:\.\d{1,2})?
IsFracPart(s) ==
    \/ s = <<>>
    \/ /\ Len(s) \in {2, 3}
       /\ s[1] = "."
       /\ AllDigits(Tail(s))

\* /^(?:0|[1-9]\d*)(?:\.\d{1,2})?$/.test(s)
AmountRegex(s) ==
    \E i \in 1..Len(s) :
        /\ IsIntPart(SubSeq(s, 1, i))
        /\ IsFracPart(SubSeq(s, i + 1, Len(s)))

RECURSIVE DecVal(_)
DecVal(s) == IF s = <<>> THEN 0 ELSE DecVal(SubSeq(s, 1, Len(s) - 1)) * 10 + DigitVal(Last(s))

\* ---- Number(s) and toFixed(2) in IEEE-754 doubles
\* digit strings as natural numbers
\* the quotient and the remainder of a digit string by d, by long division
RECURSIVE DivDigits(_, _)
DivDigits(s, d) ==
    IF s = <<>> THEN [q |-> 0, r |-> 0]
    ELSE LET front == DivDigits(SubSeq(s, 1, Len(s) - 1), d)
             n == front.r * 10 + DigitVal(Last(s))
         IN  [q |-> front.q * 10 + n \div d, r |-> n % d]

\* floor(log2 q) of a positive integer
Log2(q) == CHOOSE k \in 0..30 : 2^k <= q /\ q \div 2 < 2^k

RECURSIVE IncDigits(_)
IncDigits(s) ==
    IF s = <<>> THEN <<"1">>
    ELSE IF Last(s) = "9" THEN Append(IncDigits(SubSeq(s, 1, Len(s) - 1)), "0")
    ELSE Append(SubSeq(s, 1, Len(s) - 1), DigitChar(DigitVal(Last(s)) + 1))

\* The fraction bits a double has for a number with integer part int, which
\* is below 2^53: 52 - floor(log2 int).  A double below 2^33 has more than
\* MantissaCut fraction bits; the cut leaves the two-decimal result as it is,
\* the error of Number(s) being under 2^-21 either way.
MantissaCut == 20
FractionBits(int) ==
    IF Len(int) <= 9 THEN MantissaCut
    ELSE LET k == 26 - Log2(DivDigits(int, 2^26).q)
         IN  IF k > MantissaCut THEN MantissaCut ELSE k

\* n / d to the nearest integer, a tie to the one that makes base + result even
RoundTiesEven(n, d, base) ==
    LET q == n \div d
        r == n % d
    IN  IF 2 * r > d \/ (2 * r = d /\ (base + q) % 2 = 1) THEN q + 1 ELSE q

\* n / d to the nearest integer, a tie upwards
RoundHalfUp(n, d) == IF 2 * (n % d) >= d THEN n \div d + 1 ELSE n \div d

\* the double nearest to int + milli / 1000: its integer part, its number of
\* fraction bits and its fraction in units of 2^-bits
NearestDouble(int, milli) ==
    LET bits == FractionBits(int)
        parity == IF bits = 0 THEN DigitVal(Last(int)) ELSE 0
        frac == RoundTiesEven(milli * 2^bits, 1000, parity)
    IN  IF frac = 2^bits THEN [int |-> IncDigits(int), bits |-> bits, frac |-> 0]
        ELSE [int |-> int, bits |-> bits, frac |-> frac]

\* Number(s) of a string the regex accepted
NumberOf(s) ==
    LET dot == IF \E i \in 1..Len(s) : s[i] = "."
               THEN CHOOSE i \in 1..Len(s) : s[i] = "."
               ELSE Len(s) + 1
        frac == SubSeq(s, dot + 1, Len(s))
        milli == IF Len(frac) = 0 THEN 0
                 ELSE IF Len(frac) = 1 THEN DecVal(frac) * 100
                 ELSE IF Len(frac) = 2 THEN DecVal(frac) * 10
                 ELSE DecVal(frac)
    IN  NearestDouble(SubSeq(s, 1, dot - 1), milli)

\* Number(x.toFixed(2)) of a double: its integer part and its cents
Fixed2(x) ==
    LET cents == RoundHalfUp(x.frac * 100, 2^x.bits)
    IN  IF cents = 100 THEN [int |-> IncDigits(x.int), cents |-> 0]
        ELSE [int |-> x.int, cents |-> cents]

\* .transform((s) => Number(Number(s).toFixed(2)))
Normalized(s) == Fixed2(NumberOf(s))

\* a normalized amount in cents, for amounts TLC's integers hold
Cents(n) == DecVal(n.int) * 100 + n.cents

\* Number(x.toFixed(2)) of a stored balance, which is a whole number of cents,
\* given in thousandths
ToFixed2(milli) == (milli + 5) \div 10

\* the amount field of the input schema: <<issues, value in cents>>
AmountFormatIssue == "Invalid amount format (no leading zeros); use e.g. 1.23"
ParseAmount(raw) ==
    LET s == Preprocess(raw)
    IN  IF AmountRegex(s)
        THEN [issues |-> {}, cents |-> Cents(Normalized(s))]
        ELSE [issues |-> {AmountFormatIssue}, cents |-> 0]

\* ------------------------------------------------------- funding source
RoutingIssue == "Routing number must be 9 digits for bank funding"

\* a test that lets an absent routingNumber pass
RoutingRegexOptional(r) == r = <<>> \/ (Len(r) = 1 /\ Len(r[1]) = 9 /\ AllDigits(r[1]))

\* /^\d{9}$/ on an optional string; an absent routingNumber is <<>>
RoutingRegex(r) == Len(r) = 1 /\ Len(r[1]) = 9 /\ AllDigits(r[1])

FundingSourceRefine(src) ==
    IF src.type = "bank" THEN RoutingRegex(src.routingNumber) ELSE TRUE

\* the whole input schema of fundAccount
ParseFundInput(raw, src) ==
    LET a == ParseAmount(raw)
    IN  [issues |-> a.issues \cup (IF FundingSourceRefine(src) THEN {} ELSE {RoutingIssue}),
         cents |-> a.cents]

\* ------------------------------------------------------------ the store
\* accounts, transactions: the two tables the router works on; now: the wall
\* clock in milliseconds; calls: the tRPC calls of the run; seed: the store as
\* the server found it.  draws counts the turns of the account-number loop,
\* randomBytes and generated are one run of generateAccountNumber; stored is
\* the balance column of one account as the double it is, funded the amounts
\* credited to it.
VARIABLES accounts, transactions, now, calls, seed, draws, randomBytes, generated,
          stored, funded, users, sessions, requests, handle, script
vars == <<accounts, transactions, now, calls, seed, draws, randomBytes, generated,
          stored, funded, users, sessions, requests, handle, script>>
\* the users and sessions tables, the requests that carry a session cookie,
\* the store handle of the process and the clear-sessions script
beyond == <<users, sessions, requests, handle, script>>
aside == <<draws, randomBytes, generated, stored, funded, beyond>>

\* src/lib/db/index.ts line 8: the module opens the handle when it is loaded;
\* with it the process: running, its exit timer set, or gone; the once
\* listeners that have fired; the shutdown triggers so far
OpenedHandle ==
    [state |-> "open", opened |-> 1, closed |-> 0,
     process |-> "running", fired |-> {}, triggers |-> 0]

\* the options of clear-sessions.js, lines 8-17: none given
NoOpts == [email |-> "none", before |-> 0, after |-> 0, all |-> FALSE, dry |-> FALSE]
NoScript == [pc |-> "none", opts |-> NoOpts, listed |-> {}, deleted |-> {}]

\* empty users and sessions tables, no request, the script not started
InitBeyond ==
    /\ users = <<>>
    /\ sessions = {}
    /\ requests = <<>>
    /\ handle = OpenedHandle
    /\ script = NoScript

Account(id, userId, accountNumber, accountType, balance, status) ==
    [id |-> id, userId |-> userId, accountNumber |-> accountNumber,
     accountType |-> accountType, balance |-> balance, status |-> status]

\* a ledger row written before the server started
Deposit(id, accountId, amount) ==
    [id |-> id, accountId |-> accountId, type |-> "deposit", amount |-> amount,
     description |-> "Funding from card", status |-> "completed",
     processedAt |-> 0, createdAt |-> 0]

\* what the store may hold when the server starts: nothing, or rows written
\* earlier (status 'pending' is the column default)
SeedTables ==
    { [accounts |-> <<>>, transactions |-> <<>>],
      [accounts |-> << Account(1, "u1", 1, "checking", 1000, "active"),
                       Account(2, "u2", 2, "savings", 0, "pending") >>,
       transactions |-> << Deposit(1, 1, 400), Deposit(2, 1, 600) >>],
      [accounts |-> << Account(1, "u1", 1, "savings", 250, "closed"),
                       Account(2, "u2", 2, "checking", 100, "pending") >>,
       transactions |-> << Deposit(1, 2, 100), Deposit(2, 1, 250) >>] }

\* INTEGER PRIMARY KEY AUTOINCREMENT; no row is ever deleted by the router
\* an id taken again from the newest row
NextIdReused(t) == IF t = <<>> THEN 1 ELSE Len(t)

NextId(t) == Len(t) + 1

AccountIds(accts) == {accts[i].id : i \in 1..Len(accts)}
AccountById(accts, id) == GetFirst(SelectSeq(accts, LAMBDA a : a.id = id))

\* a lookup keyed on the account id alone
OwnedAccountByIdOnly(accts, id, user) ==
    GetFirst(SelectSeq(accts, LAMBDA a : a.id = id))

\* a lookup that finds active accounts only
OwnedAccountActive(accts, id, user) ==
    GetFirst(SelectSeq(accts, LAMBDA a : a.id = id /\ a.userId = user /\ a.status = "active"))

\* where(and(eq(accounts.id, accountId), eq(accounts.userId, ctx.user.id))).get()
OwnedAccount(accts, id, user) ==
    GetFirst(SelectSeq(accts, LAMBDA a : a.id = id /\ a.userId = user))

\* a check that looks at the active accounts only
ExistingAccountActiveOnly(accts, user, type) ==
    GetFirst(SelectSeq(accts, LAMBDA a : a.userId = user /\ a.accountType = type
                                          /\ a.status = "active"))

\* where(and(eq(accounts.userId, ...), eq(accounts.accountType, ...))).get()
ExistingAccount(accts, user, type) ==
    GetFirst(SelectSeq(accts, LAMBDA a : a.userId = user /\ a.accountType = type))

\* where(eq(accounts.accountNumber, accountNumber)).get()
AccountByNumber(accts, n) ==
    GetFirst(SelectSeq(accts, LAMBDA a : a.accountNumber = n))

\* a select without its where clause
TransactionsOfAll(txs, id) == txs

\* where(eq(transactions.accountId, accountId))
TransactionsOf(txs, id) == SelectSeq(txs, LAMBDA t : t.accountId = id)

\* --------------------------------------------------------------- calls
NoResult == [code |-> "none", message |-> {}, data |-> <<>>, newBalance |-> 0]
NoSource == [type |-> "none", routingNumber |-> <<>>]
NoAmount == [type |-> "none", text |-> <<>>]

IdleCall ==
    [op |-> "none", pc |-> "idle", user |-> NoUser,
     accountType |-> "none", accountId |-> 0, raw |-> NoAmount, amount |-> 0,
     source |-> NoSource,
     account |-> <<>>, accountNumber |-> 0, rows |-> <<>>, out |-> <<>>,
     fault |-> "none", touched |-> FALSE, result |-> NoResult]

Failure(code, message) ==
    [code |-> code, message |-> message, data |-> <<>>, newBalance |-> 0]
Success(data, newBalance) ==
    [code |-> "OK", message |-> {}, data |-> data, newBalance |-> newBalance]

\* calls are numbered in their order of arrival
Arrives(p) ==
    /\ calls[p].pc = "idle"
    /\ p > 1 => calls[p - 1].pc # "idle"

\* a middleware that lets every context through
RejectedNever(user) == FALSE

\* protectedProcedure, line 95: !ctx.user
Rejected(user) == user = NoUser

\* protectedProcedure: no user in the context
Unauthorized == Failure("UNAUTHORIZED", {"UNAUTHORIZED"})

\* the store as found, the clock past every timestamp in it, no call yet
InitRouter ==
    /\ seed \in SeedTables
    /\ accounts = seed.accounts
    /\ transactions = seed.transactions
    /\ now = 1
    /\ calls = [p \in Procs |-> IdleCall]

Init ==
    /\ InitRouter
    /\ draws = [p \in Procs |-> 0]
    /\ randomBytes = <<>>
    /\ generated = <<>>
    /\ stored = <<>>
    /\ funded = <<>>
    /\ InitBeyond

\* the wall clock moves between any two steps
Tick ==
    /\ now < MaxClock
    /\ now' = now + 1
    /\ UNCHANGED <<accounts, transactions, calls, seed, aside>>

\* ------------------------------------------------------- createAccount
\* generateAccountNumber: the draws, cut down to a few numbers so that they collide
DrawnNumbers == AcctNumbers

\* INSERT OR REPLACE: a row with the drawn number is overwritten
InsertAccountReplace(accts, user, number, type) ==
    IF AccountByNumber(accts, number) # <<>>
    THEN [threw |-> FALSE,
          accounts |-> [i \in 1..Len(accts) |->
                          IF accts[i].accountNumber = number
                          THEN Account(accts[i].id, user, number, type, 0, "active")
                          ELSE accts[i]]]
    ELSE [threw |-> FALSE,
          accounts |-> Append(accts, Account(NextId(accts), user, number, type, 0, "active"))]

\* an insert into a table whose account_number column is not UNIQUE
InsertAccountNoUnique(accts, user, number, type) ==
    [threw |-> FALSE,
     accounts |-> Append(accts, Account(NextId(accts), user, number, type, 0, "active"))]

\* db.insert(accounts).values(...): account_number is UNIQUE
InsertAccount(accts, user, number, type) ==
    IF AccountByNumber(accts, number) # <<>>
    THEN [threw |-> TRUE, accounts |-> accts]
    ELSE [threw |-> FALSE,
          accounts |-> Append(accts, Account(NextId(accts), user, number, type, 0, "active"))]

ConflictMessage(type) ==
    IF type = "checking" THEN "You already have a checking account"
    ELSE "You already have a savings account"

\* lines 25-37: the existing-account check
CreateCheck(p, user, type) ==
    /\ Arrives(p)
    /\ ~Rejected(user)
    /\ LET c == [calls[p] EXCEPT !.op = "createAccount", !.user = user, !.accountType = type]
       IN  calls' = [calls EXCEPT ![p] =
              IF ExistingAccount(accounts, user, type) # <<>>
              THEN [c EXCEPT !.pc = "done", !.touched = TRUE,
                             !.result = Failure("CONFLICT", {ConflictMessage(type)})]
              ELSE [c EXCEPT !.pc = "draw", !.touched = TRUE]]
    /\ UNCHANGED <<accounts, transactions, now, seed, aside>>

\* lines 43-47: one turn of the loop, a draw and its lookup
DrawTurn(p, n) ==
    /\ calls[p].pc = "draw"
    /\ calls' = [calls EXCEPT ![p] =
          [@ EXCEPT !.accountNumber = n,
                    !.pc = IF AccountByNumber(accounts, n) # <<>> THEN "draw" ELSE "insert"]]
    /\ UNCHANGED <<accounts, transactions, now, seed>>

CreateDraw(p, n) == DrawTurn(p, n) /\ UNCHANGED aside

\* lines 49-55: the insert; a constraint failure is an uncaught store error
CreateInsert(p) ==
    /\ calls[p].pc = "insert"
    /\ LET c == calls[p]
           r == InsertAccount(accounts, c.user, c.accountNumber, c.accountType)
       IN  /\ accounts' = r.accounts
           /\ calls' = [calls EXCEPT ![p] =
                 IF r.threw
                 THEN [c EXCEPT !.pc = "done",
                                !.result = Failure("INTERNAL_SERVER_ERROR",
                                                   {"UNIQUE constraint failed: accounts.account_number"})]
                 ELSE [c EXCEPT !.pc = "fetch"]]
    /\ UNCHANGED <<transactions, now, seed, aside>>

\* lines 57-65: read the row back by its account number
CreateFetch(p) ==
    /\ calls[p].pc = "fetch"
    /\ LET c == calls[p]
           account == AccountByNumber(accounts, c.accountNumber)
       IN  calls' = [calls EXCEPT ![p] =
              IF account = <<>>
              THEN [c EXCEPT !.pc = "done",
                             !.result = Failure("INTERNAL_SERVER_ERROR", {"Failed to create account"})]
              ELSE [c EXCEPT !.pc = "done", !.result = Success(account, 0)]]
    /\ UNCHANGED <<accounts, transactions, now, seed, aside>>

\* --------------------------------------------------------- getAccounts
\* a select without its WHERE clause
AccountsOfAll(accts, user) == accts

\* db.select().from(accounts).where(eq(accounts.userId, ctx.user.id))
AccountsOf(accts, user) == SelectSeq(accts, LAMBDA a : a.userId = user)

\* lines 68-72
GetAccounts(p, user) ==
    /\ Arrives(p)
    /\ ~Rejected(user)
    /\ calls' = [calls EXCEPT ![p] =
          [@ EXCEPT !.op = "getAccounts", !.user = user, !.pc = "done", !.touched = TRUE,
                    !.result = Success(AccountsOf(accounts, user), 0)]]
    /\ UNCHANGED <<accounts, transactions, now, seed, aside>>

\* --------------------------------------------------------- fundAccount
\* amounts a caller may send: strings as typed, numbers as String(val) renders them
Str(text) == [type |-> "string", text |-> text]
Num(text) == [type |-> "number", text |-> text]

Card == [type |-> "card", routingNumber |-> <<>>]
Bank(routing) == [type |-> "bank", routingNumber |-> routing]
Routing9 == << <<"0", "2", "1", "0", "0", "0", "0", "2", "1">> >>
Routing8 == << <<"1", "2", "3", "4", "5", "6", "7", "8">> >>

\* the amount and the funding source of the calls made
FundInputs ==
    { [raw |-> Str(<<"0">>), source |-> Card],
      [raw |-> Str(<<"0", ".", "0", "0">>), source |-> Bank(Routing9)],
      [raw |-> Str(<<"0">>), source |-> Bank(<<>>)],
      [raw |-> Num(<<"0", ".", "0", "1">>), source |-> Card],
      [raw |-> Str(<<" ", "2", ".", "5", "0">>), source |-> Card],
      [raw |-> Str(<<" ", "2", ".", "5", "0">>), source |-> Bank(Routing9)],
      [raw |-> Str(<<" ", "2", ".", "5", "0">>), source |-> Bank(<<>>)],
      [raw |-> Num(<<"0", ".", "0", "1">>), source |-> Bank(Routing8)],
      [raw |-> Num(<<"1", ".", "0", "0", "5">>), source |-> Card],
      [raw |-> Str(<<"0", "1">>), source |-> Bank(Routing8)] }

AccountIdInputs == {1, 2, 3}

\* where a store statement of the funding transaction may fail
TxnFailPoints == {"none", "insert", "update", "select"}

AmountTooSmall == Failure("BAD_REQUEST", {"Amount must be at least $0.01"})
AccountNotFound == Failure("NOT_FOUND", {"Account not found"})
AccountNotActive == Failure("BAD_REQUEST", {"Account is not active"})
StoreError == Failure("INTERNAL_SERVER_ERROR", {"store error"})

Description(srcType) == IF srcType = "bank" THEN "Funding from bank" ELSE "Funding from card"

\* one ledger row per account: a later funding overwrites the row
InsertTransactionUpsert(txs, accountId, amount, srcType, nowIso) ==
    IF \E i \in 1..Len(txs) : txs[i].accountId = accountId
    THEN [i \in 1..Len(txs) |->
            IF txs[i].accountId = accountId
            THEN [txs[i] EXCEPT !.amount = amount, !.processedAt = nowIso, !.createdAt = nowIso]
            ELSE txs[i]]
    ELSE Append(txs, [id |-> NextId(txs), accountId |-> accountId, type |-> "deposit",
                      amount |-> amount, description |-> Description(srcType),
                      status |-> "completed", processedAt |-> nowIso, createdAt |-> nowIso])

\* an INSERT that leaves status to the column default
InsertTransactionPending(txs, accountId, amount, srcType, nowIso) ==
    Append(txs, [id |-> NextId(txs), accountId |-> accountId, type |-> "deposit",
                 amount |-> amount, description |-> Description(srcType),
                 status |-> "pending", processedAt |-> nowIso, createdAt |-> nowIso])

\* INSERT INTO transactions (...) VALUES (?, 'deposit', ?, ?, 'completed', nowIso, nowIso)
\* an insert that leaves created_at to the column default
InsertTransactionCreatedDefault(txs, accountId, amount, srcType, nowIso) ==
    Append(txs, [id |-> NextId(txs), accountId |-> accountId, type |-> "deposit",
                 amount |-> amount, description |-> Description(srcType),
                 status |-> "completed", processedAt |-> nowIso, createdAt |-> 0])

InsertTransaction(txs, accountId, amount, srcType, nowIso) ==
    Append(txs, [id |-> NextId(txs), accountId |-> accountId, type |-> "deposit",
                 amount |-> amount, description |-> Description(srcType),
                 status |-> "completed", processedAt |-> nowIso, createdAt |-> nowIso])

\* SQL round(x, 2), x in thousandths
SqlRound2(milli) == (milli + 5) \div 10

\* a balance computed from the row the handler read before the transaction
UpdateBalanceFromRead(accts, accountId, amount) ==
    LET reader == CHOOSE p \in Procs :
                    /\ calls[p].pc = "txn" /\ calls[p].account # <<>>
                    /\ calls[p].accountId = accountId /\ calls[p].amount = amount
    IN  [i \in 1..Len(accts) |->
            IF accts[i].id = accountId
            THEN [accts[i] EXCEPT !.balance = SqlRound2((calls[reader].account[1].balance + amount) * 10)]
            ELSE accts[i]]

\* an UPDATE without its WHERE clause
UpdateBalanceAllRows(accts, accountId, amount) ==
    [i \in 1..Len(accts) |-> [accts[i] EXCEPT !.balance = SqlRound2((@ + amount) * 10)]]

\* UPDATE accounts SET balance = round(balance + ?, 2) WHERE id = ?
UpdateBalance(accts, accountId, amount) ==
    [i \in 1..Len(accts) |->
        IF accts[i].id = accountId
        THEN [accts[i] EXCEPT !.balance = SqlRound2((@ + amount) * 10)]
        ELSE accts[i]]

\* the statements of the callback, up to the one that throws
FundStatements(db, accountId, amount, srcType, nowIso, fail) ==
    LET db1 == [db EXCEPT !.transactions = InsertTransaction(@, accountId, amount, srcType, nowIso)]
        db2 == [db1 EXCEPT !.accounts = UpdateBalance(@, accountId, amount)]
    IN  IF fail = "insert" THEN [threw |-> TRUE, db |-> db]
        ELSE IF fail = "update" THEN [threw |-> TRUE, db |-> db1]
        ELSE IF fail = "select" THEN [threw |-> TRUE, db |-> db2]
        ELSE [threw |-> FALSE, db |-> db2]

\* the statements run without a transaction around them
SqliteTransactionNoRollback(before, r) == r

\* sqlite.transaction(fn)(): COMMIT when fn returns, ROLLBACK and rethrow when it throws
SqliteTransaction(before, r) ==
    IF r.threw THEN [threw |-> TRUE, db |-> before] ELSE r

\* SELECT * FROM transactions WHERE account_id = ? ORDER BY created_at DESC LIMIT 1:
\* any row of the account with the greatest created_at
MostRecent(txs, accountId) ==
    LET rows == TransactionsOf(txs, accountId)
    IN  {rows[i] : i \in {j \in 1..Len(rows) :
                            \A k \in 1..Len(rows) : rows[k].createdAt <= rows[j].createdAt}}

\* a minimum that only refuses negative amounts
BelowMinimumNegative(cents) == cents < 0

\* line 119: amount < 0.01, in cents
BelowMinimum(cents) == cents < 1

\* a check that only refuses closed accounts
AcceptsFundsNotClosed(account) == account.status # "closed"

\* line 137: account.status !== "active" is refused
AcceptsFunds(account) == account.status = "active"

\* a new balance computed from the row the handler read before the transaction
NewBalanceFromRead(accts, c) == ToFixed2((c.account[1].balance + c.amount) * 10)

\* lines 173-174: the balance read back inside the transaction, to two decimals
NewBalance(accts, c) == ToFixed2(AccountById(accts, c.accountId)[1].balance * 10)

\* lines 75-128: input schema, minimum amount, and the ownership lookup
FundVerify(p, user, accountId, raw, src) ==
    /\ Arrives(p)
    /\ ~Rejected(user)
    /\ LET c == [calls[p] EXCEPT !.op = "fundAccount", !.user = user, !.accountId = accountId,
                                 !.raw = raw, !.source = src]
           input == ParseFundInput(raw, src)
       IN  calls' = [calls EXCEPT ![p] =
              IF input.issues # {}
              THEN [c EXCEPT !.pc = "done", !.result = Failure("BAD_REQUEST", input.issues)]
              ELSE IF BelowMinimum(input.cents)
              THEN [c EXCEPT !.pc = "done", !.amount = input.cents, !.result = AmountTooSmall]
              ELSE [c EXCEPT !.pc = "txn", !.amount = input.cents, !.touched = TRUE,
                             !.account = OwnedAccount(accounts, accountId, user)]]
    /\ UNCHANGED <<accounts, transactions, now, seed, aside>>

\* lines 130-181: the checks on the row read, then insert + update in one transaction
FundTxn(p, fail) ==
    /\ calls[p].pc = "txn"
    /\ LET c == calls[p]
           db == [accounts |-> accounts, transactions |-> transactions]
           r == SqliteTransaction(db,
                    FundStatements(db, c.accountId, c.amount, c.source.type, now, fail))
       IN  IF c.account = <<>>
           THEN /\ calls' = [calls EXCEPT ![p] = [c EXCEPT !.pc = "done", !.result = AccountNotFound]]
                /\ UNCHANGED <<accounts, transactions>>
           ELSE IF ~AcceptsFunds(c.account[1])
           THEN /\ calls' = [calls EXCEPT ![p] = [c EXCEPT !.pc = "done", !.result = AccountNotActive]]
                /\ UNCHANGED <<accounts, transactions>>
           ELSE /\ accounts' = r.db.accounts
                /\ transactions' = r.db.transactions
                /\ IF r.threw
                   THEN calls' = [calls EXCEPT ![p] =
                           [c EXCEPT !.pc = "done", !.fault = fail, !.result = StoreError]]
                   ELSE \E t \in MostRecent(r.db.transactions, c.accountId) :
                          calls' = [calls EXCEPT ![p] =
                             [c EXCEPT !.pc = "done", !.fault = fail,
                                       !.result = Success(<<t>>, NewBalance(r.db.accounts, c))]]
    /\ UNCHANGED <<now, seed, aside>>

\* ----------------------------------------------------- getTransactions
\* lines 191-196: the ownership lookup
GetTxVerify(p, user, accountId) ==
    /\ Arrives(p)
    /\ ~Rejected(user)
    /\ calls' = [calls EXCEPT ![p] =
          [@ EXCEPT !.op = "getTransactions", !.user = user, !.accountId = accountId,
                    !.pc = "list", !.touched = TRUE,
                    !.account = OwnedAccount(accounts, accountId, user)]]
    /\ UNCHANGED <<accounts, transactions, now, seed, aside>>

\* lines 198-208: not found, or the ledger rows of the account
GetTxList(p) ==
    /\ calls[p].pc = "list"
    /\ LET c == calls[p]
           rows == TransactionsOf(transactions, c.accountId)
       IN  calls' = [calls EXCEPT ![p] =
              IF c.account = <<>>
              THEN [c EXCEPT !.pc = "done", !.result = AccountNotFound]
              ELSE IF rows = <<>>
              THEN [c EXCEPT !.pc = "done", !.result = Success(<<>>, 0)]
              ELSE [c EXCEPT !.pc = "enrich", !.rows = rows]]
    /\ UNCHANGED <<accounts, transactions, now, seed, aside>>

\* an enrichment that also stamps the row with the time of the query
EnrichedStamped(t, details) ==
    [id |-> t.id, accountId |-> t.accountId, type |-> t.type, amount |-> t.amount,
     description |-> t.description, status |-> t.status,
     processedAt |-> now, createdAt |-> t.createdAt,
     accountType |-> IF details = <<>> THEN "undefined" ELSE details[1].accountType]

\* { ...transaction, accountType: accountDetails?.accountType }
Enriched(t, details) ==
    [id |-> t.id, accountId |-> t.accountId, type |-> t.type, amount |-> t.amount,
     description |-> t.description, status |-> t.status,
     processedAt |-> t.processedAt, createdAt |-> t.createdAt,
     accountType |-> IF details = <<>> THEN "undefined" ELSE details[1].accountType]

\* lines 211-220: one turn of the loop, the account lookup of the next row
GetTxEnrich(p) ==
    /\ calls[p].pc = "enrich"
    /\ LET c == calls[p]
           t == c.rows[Len(c.out) + 1]
           out == Append(c.out, Enriched(t, AccountById(accounts, t.accountId)))
       IN  calls' = [calls EXCEPT ![p] =
              IF Len(out) = Len(c.rows)
              THEN [c EXCEPT !.pc = "done", !.out = out, !.result = Success(out, 0)]
              ELSE [c EXCEPT !.out = out]]
    /\ UNCHANGED <<accounts, transactions, now, seed, aside>>

\* ---------------------------------------------------- protectedProcedure
Operations == {"createAccount", "getAccounts", "fundAccount", "getTransactions"}

\* src/server/trpc.ts lines 94-97: without a user the handler and its input
\* parser never run
Unauthenticated(p, op) ==
    /\ Arrives(p)
    /\ Rejected(NoUser)
    /\ calls' = [calls EXCEPT ![p] = [@ EXCEPT !.op = op, !.pc = "done", !.result = Unauthorized]]
    /\ UNCHANGED <<accounts, transactions, now, seed, aside>>

\* ------------------------------------------------------- specification
Next ==
    \/ Tick
    \/ \E p \in Procs :
        \/ \E op \in Operations : Unauthenticated(p, op)
        \/ \E u \in Callers, type \in AccountTypes : CreateCheck(p, u, type)
        \/ \E n \in DrawnNumbers : CreateDraw(p, n)
        \/ CreateInsert(p)
        \/ CreateFetch(p)
        \/ \E u \in Callers : GetAccounts(p, u)
        \/ \E u \in Callers, id \in AccountIdInputs, in \in FundInputs :
              FundVerify(p, u, id, in.raw, in.source)
        \/ \E fail \in TxnFailPoints : FundTxn(p, fail)
        \/ \E u \in Callers, id \in AccountIdInputs : GetTxVerify(p, u, id)
        \/ GetTxList(p)
        \/ GetTxEnrich(p)

Spec == Init /\ [][Next]_vars

\* ----------------------------------------- account-number allocation alone
\* a turn of the loop, counted; the count stops one past RetryCeiling
CreateDrawCounted(p, n) ==
    /\ DrawTurn(p, n)
    /\ draws' = [draws EXCEPT ![p] = IF @ > RetryCeiling THEN @ ELSE @ + 1]
    /\ UNCHANGED <<randomBytes, generated, stored, funded, beyond>>

\* createAccount calls only
AllocNext ==
    \E p \in Procs :
        \/ \E u \in Users, type \in AccountTypes : CreateCheck(p, u, type)
        \/ \E n \in DrawnNumbers : CreateDrawCounted(p, n)
        \/ CreateInsert(p)
        \/ CreateFetch(p)

SpecAlloc == Init /\ [][AllocNext]_vars

\* -------------------------------------------- the amount schema alone
\* texts of at most MaxTextLen characters over these characters, and some
\* longer ones
MaxTextLen == 3
AmountAlphabet == {"0", "1", "5", ".", "-", "e", " "}
AmountTexts ==
    UNION {[1..n -> AmountAlphabet] : n \in 0..MaxTextLen}
      \cup { <<"1", ".", "0", "0", "5">>, <<"0", ".", "0", "0", "5">>,
              <<"1", "0", ".", "5", "0">>, <<" ", "2", ".", "5", "0", " ">>,
              <<"1", ".", "0", "0">>, <<"0", ".", "0", "5">>, <<"0", "1", ".", "5">>,
              <<"1", ".", "5", "e">>, <<"-", "0", ".", "5">>, <<"1", ".", "1", ".">>,
              <<"1", " ", ".", "5">>, <<"1", "0", "0", "0">>, <<"0", "0", ".", "1">>,
              <<"a", "b", "c">>, <<"+", "1">>, <<"1", ",", "5">>, <<"0", "x", "1", "0">>,
              <<"1", "e", "+", "2", "1">>, <<"N", "a", "N">> }

\* String(val) of some numbers: 0, 1, 0.01, 1.5, 10.25, 1.005, 0.001, -1,
\* 1e21, 1e-7, NaN
NumberTexts ==
    { <<"0">>, <<"1">>, <<"0", ".", "0", "1">>, <<"1", ".", "5">>,
      <<"1", "0", ".", "2", "5">>, <<"1", ".", "0", "0", "5">>,
      <<"0", ".", "0", "0", "1">>, <<"-", "1">>, <<"1", "e", "+", "2", "1">>,
      <<"1", "e", "-", "7">>, <<"N", "a", "N">> }

AmountSamples == {Str(t) : t \in AmountTexts} \cup {Num(t) : t \in NumberTexts}

\* one fundAccount call with any of the amounts, and a call with "2.50" after it
AmountNext ==
    \/ \E a \in AmountSamples, id \in {1, 2} : FundVerify(1, "u1", id, a, Card)
    \/ \E id \in {1, 2} : FundVerify(2, "u1", id, Str(<<"2", ".", "5", "0">>), Card)
    \/ \E p \in Procs : FundTxn(p, "none")

SpecAmount == Init /\ [][AmountNext]_vars

\* ------------------------------- the balance of one account, in doubles
RECURSIVE AddDigits(_, _, _)
AddDigits(a, b, carry) ==
    IF a = <<>> /\ b = <<>> THEN (IF carry = 0 THEN <<>> ELSE <<DigitChar(carry)>>)
    ELSE LET d == (IF a = <<>> THEN 0 ELSE DigitVal(Last(a)))
                  + (IF b = <<>> THEN 0 ELSE DigitVal(Last(b))) + carry
         IN  Append(AddDigits(IF a = <<>> THEN a ELSE SubSeq(a, 1, Len(a) - 1),
                              IF b = <<>> THEN b ELSE SubSeq(b, 1, Len(b) - 1),
                              d \div 10),
                    DigitChar(d % 10))

\* x + y in doubles: the exact sum, rounded to the fraction bits of its size
DoubleAdd(x, y) ==
    LET wide == IF x.bits > y.bits THEN x.bits ELSE y.bits
        sum == x.frac * 2^(wide - x.bits) + y.frac * 2^(wide - y.bits)
        whole == AddDigits(x.int, y.int, sum \div 2^wide)
        bits == FractionBits(whole)
        parity == IF bits = 0 THEN DigitVal(Last(whole)) ELSE 0
        frac == RoundTiesEven(sum % 2^wide, 2^(wide - bits), parity)
    IN  IF frac = 2^bits THEN [int |-> IncDigits(whole), bits |-> bits, frac |-> 0]
        ELSE [int |-> whole, bits |-> bits, frac |-> frac]

\* SQL round(x, 2): x printed with two decimals and read back
SqlRound(x) ==
    LET printed == Fixed2(x)
    IN  NearestDouble(printed.int, printed.cents * 10)

\* UPDATE accounts SET balance = round(balance + ?, 2), the parameter being
\* the normalized amount
UpdateBalanceDouble(balance, amount) ==
    SqlRound(DoubleAdd(balance, NearestDouble(amount.int, amount.cents * 10)))

\* amounts sent: small ones, and ones of the size of 2^45 and 2^46
MoneyTexts ==
    { <<"0", ".", "0", "1">>, <<"0", ".", "1", "0">>, <<"0", ".", "2", "5">>,
      <<"2", ".", "5", "0">>, <<"0">>,
      <<"3", "5", "1", "8", "4", "3", "7", "2", "0", "8", "8", "8", "3", "2", ".", "0", "3">>,
      <<"7", "0", "3", "6", "8", "7", "4", "4", "1", "7", "7", "6", "6", "4">>,
      <<"7", "0", "3", "6", "8", "7", "4", "4", "1", "7", "7", "6", "6", "4", ".", "0", "1">> }

MaxFundings == 3

\* createAccount inserts balance: 0
InitMoney ==
    /\ InitRouter
    /\ seed.accounts = <<>>
    /\ draws = [p \in Procs |-> 0]
    /\ randomBytes = <<>>
    /\ generated = <<>>
    /\ stored = NearestDouble(<<"0">>, 0)
    /\ funded = <<>>
    /\ InitBeyond

\* a fundAccount call that passes the schema and the minimum, on this account
FundStep(text) ==
    /\ Len(funded) < MaxFundings
    /\ AmountRegex(text)
    /\ LET amount == Normalized(text)
       IN  /\ ~(amount.int = <<"0">> /\ BelowMinimum(amount.cents))
           /\ stored' = UpdateBalanceDouble(stored, amount)
           /\ funded' = Append(funded, [text |-> text, amount |-> amount])
    /\ UNCHANGED <<accounts, transactions, now, calls, seed, draws, randomBytes, generated, beyond>>

MoneyNext == \E text \in MoneyTexts : FundStep(text)

SpecMoney == InitMoney /\ [][MoneyNext]_vars

\* ------------------- fundAccount in two steps (src/unnamed/part_000)
\* amounts sent as JSON numbers, by their String rendering
TwoStepAmounts ==
    { <<"0", ".", "0", "1">>, <<"2", ".", "5">>, <<"1", "0", ".", "2", "5">>,
      <<"0", ".", "0", "0", "1">> }

\* an UPDATE that adds the amount to the stored balance
SetBalanceIncrement(accts, c) == UpdateBalance(accts, c.accountId, c.amount)

\* lines 146-155: newBalance from the row read earlier, written over the
\* stored balance
SetBalance(accts, c) ==
    LET currentBalance == ToFixed2(c.account[1].balance * 10)
        newBalance == ToFixed2((currentBalance + c.amount) * 10)
    IN  [i \in 1..Len(accts) |->
            IF accts[i].id = c.accountId
            THEN [accts[i] EXCEPT !.balance = newBalance]
            ELSE accts[i]]

\* lines 101-118: the amount to two decimals, the minimum, the ownership lookup
TwoStepRead(p, user, accountId, text) ==
    /\ Arrives(p)
    /\ ~Rejected(user)
    /\ LET c == [calls[p] EXCEPT !.op = "fundAccount", !.user = user, !.accountId = accountId,
                                 !.raw = Num(text), !.source = Card]
           amount == Cents(Fixed2(NumberOf(text)))
       IN  calls' = [calls EXCEPT ![p] =
              IF BelowMinimum(amount)
              THEN [c EXCEPT !.pc = "done", !.amount = amount, !.result = AmountTooSmall]
              ELSE [c EXCEPT !.pc = "insert2", !.amount = amount, !.touched = TRUE,
                             !.account = OwnedAccount(accounts, accountId, user)]]
    /\ UNCHANGED <<accounts, transactions, now, seed, aside>>

\* lines 120-143: the checks on the row read, then the ledger entry
TwoStepInsert(p) ==
    /\ calls[p].pc = "insert2"
    /\ LET c == calls[p]
       IN  IF c.account = <<>>
           THEN /\ calls' = [calls EXCEPT ![p] = [c EXCEPT !.pc = "done", !.result = AccountNotFound]]
                /\ UNCHANGED transactions
           ELSE IF ~AcceptsFunds(c.account[1])
           THEN /\ calls' = [calls EXCEPT ![p] = [c EXCEPT !.pc = "done", !.result = AccountNotActive]]
                /\ UNCHANGED transactions
           ELSE /\ transactions' = InsertTransaction(transactions, c.accountId, c.amount,
                                                     c.source.type, now)
                /\ calls' = [calls EXCEPT ![p] = [c EXCEPT !.pc = "update2"]]
    /\ UNCHANGED <<accounts, now, seed, aside>>

\* lines 145-155: the new balance computed in memory and written back
TwoStepUpdate(p) ==
    /\ calls[p].pc = "update2"
    /\ accounts' = SetBalance(accounts, calls[p])
    /\ calls' = [calls EXCEPT ![p] = [@ EXCEPT !.pc = "select2"]]
    /\ UNCHANGED <<transactions, now, seed, aside>>

\* lines 157-169: the most recent entry of the account, and the result
TwoStepSelect(p) ==
    /\ calls[p].pc = "select2"
    /\ LET c == calls[p]
       IN  \E t \in MostRecent(transactions, c.accountId) :
              calls' = [calls EXCEPT ![p] =
                 [c EXCEPT !.pc = "done",
                           !.result = Success(<<t>>,
                               ToFixed2((ToFixed2(c.account[1].balance * 10) + c.amount) * 10))]]
    /\ UNCHANGED <<accounts, transactions, now, seed, aside>>

TwoStepNext ==
    \/ Tick
    \/ \E p \in Procs :
        \/ \E user \in Users, id \in {1, 2}, text \in TwoStepAmounts :
              TwoStepRead(p, user, id, text)
        \/ TwoStepInsert(p)
        \/ TwoStepUpdate(p)
        \/ TwoStepSelect(p)

SpecTwoStep == Init /\ [][TwoStepNext]_vars

\* ------------------------- sessions (src/server/trpc.ts, routers/auth.ts)
NumClients == 3
MaxSessionClock == 4
Clients == 1..NumClients

\* the variables of the account router and of the pure-function checks
routerVars == <<accounts, transactions, calls, seed, draws, randomBytes, generated,
                stored, funded>>

\* expiresIn: "7d" and setDate(getDate() + 7), in ticks of the clock
SevenDays == 3
\* SESSION_EXPIRY_SAFETY_MS, in ticks of the clock
SafetyWindow == 1

\* ssnLookupHash(ssn) of lib/crypto/ssn: a deterministic keyed hash, one
\* value per SSN
ssnLookupHash(ssn) == <<"lookup", ssn>>

UserRow(id, email, ssnHash) == [id |-> id, email |-> email, ssnHash |-> ssnHash]
TwoUsers ==
    <<UserRow(1, "ann@example.com", ssnLookupHash("111223333")),
      UserRow(2, "bob@example.com", ssnLookupHash("222334444"))>>
UserIds == {1, 2}

\* a session cookie: a JWT with its payload, validly signed or not; none
NoToken == [present |-> FALSE, userId |-> 0, iat |-> 0, signed |-> FALSE]
\* jwt.sign({ userId }, secret, { expiresIn: "7d" }): a function of the user
\* and the time of issue
JwtSign(userId, t) == [present |-> TRUE, userId |-> userId, iat |-> t, signed |-> TRUE]
\* jwt.verify: the signature, and the exp claim against the clock
JwtVerify(token, t) == token.signed /\ t < token.iat + SevenDays

SessionRow(userId, token, expiresAt) ==
    [userId |-> userId, token |-> token, expiresAt |-> expiresAt]

\* a lookup by the user the token names
SessionOfUser(rows, token) ==
    IF \E r \in rows : r.userId = token.userId
    THEN <<CHOOSE r \in rows : r.userId = token.userId>>
    ELSE <<>>

\* db.select().from(sessions).where(eq(sessions.token, token)).get()
SessionOf(rows, token) ==
    IF \E r \in rows : r.token = token
    THEN <<CHOOSE r \in rows : r.token = token>>
    ELSE <<>>

\* db.delete(sessions).where(eq(sessions.token, token))
DeleteSession(rows, token) == {r \in rows : r.token # token}

\* db.select().from(users).where(eq(users.id, decoded.userId)).get()
UserById(rows, id) == GetFirst(SelectSeq(rows, LAMBDA u : u.id = id))

\* line 66: expired, or within the safety window
Revoked(expiresAt, t) == expiresAt - t <= SafetyWindow

\* the sessions table as found: empty; or a session of user 1 as login wrote
\* it at tick 1 and a session of user 2 whose row expires before its JWT
\* (as the session test script writes it)
SessionSeeds ==
    { {},
      { SessionRow(1, JwtSign(1, 1), 1 + SevenDays), SessionRow(2, JwtSign(2, 1), 3) } }

TokenInputs ==
    {JwtSign(u, t) : u \in UserIds, t \in 1..2}
      \cup {[JwtSign(1, 1) EXCEPT !.signed = FALSE], NoToken}

NoOutcome == [code |-> "none", message |-> "none"]
IdleRequest ==
    [pc |-> "idle", op |-> "none", token |-> NoToken, session |-> <<>>, user |-> <<>>,
     after |-> {}, result |-> NoOutcome]

InitSession ==
    /\ InitRouter
    /\ seed.accounts = <<>>
    /\ draws = [p \in Procs |-> 0]
    /\ randomBytes = <<>>
    /\ generated = <<>>
    /\ stored = <<>>
    /\ funded = <<>>
    /\ users = TwoUsers
    /\ sessions \in SessionSeeds
    /\ requests = [c \in Clients |-> IdleRequest]
    /\ handle = OpenedHandle
    /\ script = NoScript

\* requests are numbered in their order of arrival
RequestArrives(c) ==
    /\ requests[c].pc = "idle"
    /\ c > 1 => requests[c - 1].pc # "idle"

Finished == {c \in Clients : requests[c].pc = "done"}

SessionTick ==
    /\ now < MaxSessionClock
    /\ now' = now + 1
    /\ UNCHANGED <<routerVars, beyond>>

\* trpc.ts lines 46-55: the cookie, jwt.verify, and the session lookup
CtxLookup(c, op, token) ==
    /\ RequestArrives(c)
    /\ LET r == [requests[c] EXCEPT !.op = op, !.token = token, !.after = Finished]
       IN  requests' = [requests EXCEPT ![c] =
              IF token.present /\ JwtVerify(token, now)
              THEN [r EXCEPT !.pc = "decide", !.session = SessionOf(sessions, token)]
              ELSE [r EXCEPT !.pc = "handler"]]
    /\ UNCHANGED <<routerVars, now, users, sessions, handle, script>>

\* trpc.ts lines 57-75: no row, a row to revoke, or the user of the token
CtxDecide(c) ==
    /\ requests[c].pc = "decide"
    /\ LET r == requests[c]
       IN  IF r.session = <<>>
           THEN /\ requests' = [requests EXCEPT ![c] = [r EXCEPT !.pc = "handler"]]
                /\ UNCHANGED sessions
           ELSE IF Revoked(r.session[1].expiresAt, now)
           THEN /\ sessions' = DeleteSession(sessions, r.token)
                /\ requests' = [requests EXCEPT ![c] = [r EXCEPT !.pc = "handler"]]
           ELSE /\ requests' = [requests EXCEPT ![c] =
                      [r EXCEPT !.pc = "handler", !.user = UserById(users, r.token.userId)]]
                /\ UNCHANGED sessions
    /\ UNCHANGED <<routerVars, now, users, handle, script>>

\* trpc.ts lines 94-105: a protected procedure, by its middleware alone
Protected(c) ==
    /\ requests[c].pc = "handler" /\ requests[c].op = "protected"
    /\ requests' = [requests EXCEPT ![c] =
          [@ EXCEPT !.pc = "done",
                    !.result = IF requests[c].user = <<>>
                               THEN [code |-> "UNAUTHORIZED", message |-> "UNAUTHORIZED"]
                               ELSE [code |-> "OK", message |-> "none"]]]
    /\ UNCHANGED <<routerVars, now, users, sessions, handle, script>>

\* auth.ts lines 196-221
Logout(c) ==
    /\ requests[c].pc = "handler" /\ requests[c].op = "logout"
    /\ LET r == requests[c]
       IN  /\ sessions' = IF r.user # <<>> /\ r.token.present
                          THEN DeleteSession(sessions, r.token)
                          ELSE sessions
           /\ requests' = [requests EXCEPT ![c] =
                 [r EXCEPT !.pc = "done",
                           !.result = [code |-> "OK",
                                       message |-> IF r.user # <<>>
                                                   THEN "Logged out successfully"
                                                   ELSE "No active session"]]]
    /\ UNCHANGED <<routerVars, now, users, handle, script>>

\* auth.ts lines 155-194: the credentials, then the token and its session
\* row; sessions.token is UNIQUE
Login(c, userId, validPassword) ==
    /\ RequestArrives(c)
    /\ LET token == JwtSign(userId, now)
           r == [requests[c] EXCEPT !.op = "login", !.after = Finished, !.pc = "done"]
       IN  IF ~validPassword
           THEN /\ requests' = [requests EXCEPT ![c] =
                      [r EXCEPT !.result = [code |-> "UNAUTHORIZED",
                                            message |-> "Invalid credentials"]]]
                /\ UNCHANGED sessions
           ELSE IF SessionOf(sessions, token) # <<>>
           THEN /\ requests' = [requests EXCEPT ![c] =
                      [r EXCEPT !.result = [code |-> "INTERNAL_SERVER_ERROR",
                                            message |-> "UNIQUE constraint failed"]]]
                /\ UNCHANGED sessions
           ELSE /\ sessions' = sessions \cup {SessionRow(userId, token, now + SevenDays)}
                /\ requests' = [requests EXCEPT ![c] =
                      [r EXCEPT !.token = token, !.user = UserById(users, userId),
                                !.result = [code |-> "OK", message |-> "none"]]]
    /\ UNCHANGED <<routerVars, now, users, handle, script>>

SessionNext ==
    \/ SessionTick
    \/ \E c \in Clients :
        \/ \E op \in {"protected", "logout"}, token \in TokenInputs : CtxLookup(c, op, token)
        \/ CtxDecide(c)
        \/ Protected(c)
        \/ Logout(c)
        \/ \E userId \in UserIds, validPassword \in BOOLEAN : Login(c, userId, validPassword)

SpecSession == InitSession /\ [][SessionNext]_vars

\* ------------------------------------------- signup (routers/auth.ts)
\* z.string().email().toLowerCase(), on the addresses sent
ToLowerCase(email) == IF email = "Ann@Example.com" THEN "ann@example.com" ELSE email

EmailInputs == {"ann@example.com", "Ann@Example.com", "cy@example.com", "di@example.com"}
SsnInputs == {"111223333", "333445555"}

UserByEmail(rows, email) == GetFirst(SelectSeq(rows, LAMBDA u : u.email = email))
UserBySsnHash(rows, hash) == GetFirst(SelectSeq(rows, LAMBDA u : u.ssnHash = hash))

\* db.insert(users): email TEXT UNIQUE NOT NULL, ssn_hash TEXT
InsertUser(rows, email, hash) ==
    IF UserByEmail(rows, email) # <<>>
    THEN [threw |-> TRUE, rows |-> rows]
    ELSE [threw |-> FALSE, rows |-> Append(rows, UserRow(Len(rows) + 1, email, hash))]

IdleSignup ==
    [pc |-> "idle", op |-> "none", email |-> "none", ssnHash |-> <<>>, found |-> <<>>,
     taken |-> FALSE, user |-> <<>>, token |-> NoToken, result |-> NoOutcome]

InitSignup ==
    /\ InitRouter
    /\ seed.accounts = <<>>
    /\ draws = [p \in Procs |-> 0]
    /\ randomBytes = <<>>
    /\ generated = <<>>
    /\ stored = <<>>
    /\ funded = <<>>
    /\ users \in {<<>>, TwoUsers}
    /\ sessions = {}
    /\ requests = [c \in Procs |-> IdleSignup]
    /\ handle = OpenedHandle
    /\ script = NoScript

\* lines 83-89: the lookup hash, and the select by email; taken records
\* whether a user held the email or the SSN when the call arrived
SignupArrive(c, email, ssn) ==
    /\ requests[c].pc = "idle"
    /\ c > 1 => requests[c - 1].pc # "idle"
    /\ LET e == ToLowerCase(email)
           h == ssnLookupHash(ssn)
       IN  requests' = [requests EXCEPT ![c] =
              [@ EXCEPT !.pc = "email", !.op = "signup", !.email = e, !.ssnHash = h,
                        !.found = UserByEmail(users, e),
                        !.taken = UserByEmail(users, e) # <<>> \/ UserBySsnHash(users, h) # <<>>]]
    /\ UNCHANGED <<routerVars, now, users, sessions, handle, script>>

\* lines 90-97: the email conflict, or the select by SSN hash
SignupEmail(c) ==
    /\ requests[c].pc = "email"
    /\ requests' = [requests EXCEPT ![c] =
          IF requests[c].found # <<>>
          THEN [@ EXCEPT !.pc = "done",
                         !.result = [code |-> "CONFLICT",
                                     message |-> "User already exists with that email"]]
          ELSE [@ EXCEPT !.pc = "ssn", !.found = UserBySsnHash(users, requests[c].ssnHash)]]
    /\ UNCHANGED <<routerVars, now, users, sessions, handle, script>>

\* lines 98-105: the SSN conflict, or the start of bcrypt.hash
SignupSsn(c) ==
    /\ requests[c].pc = "ssn"
    /\ requests' = [requests EXCEPT ![c] =
          IF requests[c].found # <<>>
          THEN [@ EXCEPT !.pc = "done",
                         !.result = [code |-> "CONFLICT",
                                     message |-> "An account with that Social Security Number already exists"]]
          ELSE [@ EXCEPT !.pc = "hash"]]
    /\ UNCHANGED <<routerVars, now, users, sessions, handle, script>>

\* lines 107-112: the insert, once the password hash is there
SignupInsert(c) ==
    /\ requests[c].pc = "hash"
    /\ LET r == InsertUser(users, requests[c].email, requests[c].ssnHash)
       IN  /\ users' = r.rows
           /\ requests' = [requests EXCEPT ![c] =
                 IF r.threw
                 THEN [@ EXCEPT !.pc = "done",
                                !.result = [code |-> "INTERNAL_SERVER_ERROR",
                                            message |-> "UNIQUE constraint failed"]]
                 ELSE [@ EXCEPT !.pc = "fetch"]]
    /\ UNCHANGED <<routerVars, now, sessions, handle, script>>

\* lines 115-122: the user read back by email
SignupFetch(c) ==
    /\ requests[c].pc = "fetch"
    /\ LET u == UserByEmail(users, requests[c].email)
       IN  requests' = [requests EXCEPT ![c] =
              IF u = <<>>
              THEN [@ EXCEPT !.pc = "done",
                             !.result = [code |-> "INTERNAL_SERVER_ERROR",
                                         message |-> "Failed to create user"]]
              ELSE [@ EXCEPT !.pc = "session", !.user = u]]
    /\ UNCHANGED <<routerVars, now, users, sessions, handle, script>>

\* lines 124-145: the token and the session row
SignupSession(c) ==
    /\ requests[c].pc = "session"
    /\ LET token == JwtSign(requests[c].user[1].id, now)
       IN  IF SessionOf(sessions, token) # <<>>
           THEN /\ requests' = [requests EXCEPT ![c] =
                      [@ EXCEPT !.pc = "done",
                                !.result = [code |-> "INTERNAL_SERVER_ERROR",
                                            message |-> "UNIQUE constraint failed"]]]
                /\ UNCHANGED sessions
           ELSE /\ sessions' = sessions
                       \cup {SessionRow(requests[c].user[1].id, token, now + SevenDays)}
                /\ requests' = [requests EXCEPT ![c] =
                      [@ EXCEPT !.pc = "done", !.token = token,
                                !.result = [code |-> "OK", message |-> "none"]]]
    /\ UNCHANGED <<routerVars, now, users, handle, script>>

SignupNext ==
    \E c \in Procs :
        \/ \E email \in EmailInputs, ssn \in SsnInputs : SignupArrive(c, email, ssn)
        \/ SignupEmail(c)
        \/ SignupSsn(c)
        \/ SignupInsert(c)
        \/ SignupFetch(c)
        \/ SignupSession(c)

SpecSignup == InitSignup /\ [][SignupNext]_vars

\* ----------------------- shutdown (src/server/trpc.ts, lib/db/index.ts)
MaxTriggers == 3

\* process.once listeners, and process.on listeners
OnceTriggers == {"SIGINT", "SIGTERM", "beforeExit"}
OnTriggers == {"uncaughtException", "unhandledRejection"}

\* closeDb, lines 74-86: sqlite.close() closes an open connection and
\* leaves a closed one as it is
closeDb(h) ==
    IF h.state = "open" THEN [h EXCEPT !.state = "closed", !.closed = @ + 1] ELSE h

\* gracefulShutdown, lines 108-120: closeDb, then the exit timer of 100 ms
gracefulShutdown(h) == [closeDb(h) EXCEPT !.process = "exiting"]

\* a statement on the handle: it runs on an open connection and throws "The
\* database connection is not open" on a closed one
StoreCall(h) == IF h.state = "open" THEN "ran" ELSE "threw"

IdleHandler == [pc |-> "idle", first |-> "none", second |-> "none"]

InitShutdown ==
    /\ InitRouter
    /\ seed.accounts = <<>>
    /\ draws = [p \in Procs |-> 0]
    /\ randomBytes = <<>>
    /\ generated = <<>>
    /\ stored = <<>>
    /\ funded = <<>>
    /\ users = <<>>
    /\ sessions = {}
    /\ requests = [c \in Procs |-> IdleHandler]
    /\ handle = OpenedHandle
    /\ script = NoScript

\* lines 122-134: a trigger whose listener is installed runs
\* gracefulShutdown; a signal whose once listener has gone ends the process
Trigger(t) ==
    /\ handle.process # "exited"
    /\ handle.triggers < MaxTriggers
    /\ handle' =
          IF t \in handle.fired
          THEN [handle EXCEPT !.triggers = @ + 1,
                              !.process = IF t = "beforeExit" THEN @ ELSE "exited"]
          ELSE [gracefulShutdown(handle) EXCEPT
                   !.triggers = @ + 1,
                   !.fired = IF t \in OnceTriggers THEN @ \cup {t} ELSE @]
    /\ UNCHANGED <<routerVars, now, users, sessions, requests, script>>

\* line 118: setTimeout(() => process.exit(0), 100)
ExitTimer ==
    /\ handle.process = "exiting"
    /\ handle' = [handle EXCEPT !.process = "exited"]
    /\ UNCHANGED <<routerVars, now, users, sessions, requests, script>>

\* a request handler up to its first await: its first store statement
HandlerStart(c) ==
    /\ handle.process # "exited"
    /\ requests[c].pc = "idle"
    /\ c > 1 => requests[c - 1].pc # "idle"
    /\ requests' = [requests EXCEPT ![c] = [@ EXCEPT !.pc = "await", !.first = StoreCall(handle)]]
    /\ UNCHANGED <<routerVars, now, users, sessions, handle, script>>

\* the handler resumed after an await (bcrypt.hash in signup): its next
\* store statement
HandlerResume(c) ==
    /\ handle.process # "exited"
    /\ requests[c].pc = "await"
    /\ requests' = [requests EXCEPT ![c] = [@ EXCEPT !.pc = "done", !.second = StoreCall(handle)]]
    /\ UNCHANGED <<routerVars, now, users, sessions, handle, script>>

ShutdownNext ==
    \/ \E t \in OnceTriggers \cup OnTriggers : Trigger(t)
    \/ ExitTimer
    \/ \E c \in Procs : HandlerStart(c) \/ HandlerResume(c)

SpecShutdown == InitShutdown /\ [][ShutdownNext]_vars

\* --------------------------------- src/scripts/clear-sessions.js
\* lines 8-17: the command lines tried; an email of a user and one of nobody,
\* instants as ticks (0: option absent)
OptInputs ==
    [email : {"none", "ann@example.com", "zed@example.com"},
     before : {0, 4}, after : {0, 4}, all : BOOLEAN, dry : BOOLEAN]

\* the WHERE clause the options select, lines 21-37 and 63-76, in the order
\* of the if-chain; "none" when no criterion is given
Criterion(o) ==
    IF o.email # "none" THEN "email"
    ELSE IF o.before # 0 THEN "before"
    ELSE IF o.after # 0 THEN "after"
    ELSE IF o.all THEN "all"
    ELSE "none"

\* the rows a WHERE clause selects
Where(rows, usrs, o, clause) ==
    CASE clause = "email" ->
           LET user == UserByEmail(usrs, o.email)
           IN  IF user = <<>> THEN {} ELSE {r \in rows : r.userId = user[1].id}
      [] clause = "before" -> {r \in rows : r.expiresAt < o.before}
      [] clause = "after" -> {r \in rows : r.expiresAt > o.after}
      [] OTHER -> rows

\* listMatching, lines 19-39: without a criterion it lists every session
listMatching(rows, usrs, o) == Where(rows, usrs, o, Criterion(o))

\* a deletion that ignores the criterion
DeleteMatchingAll(rows, usrs, o) == IF Criterion(o) = "none" THEN {} ELSE rows

\* lines 62-76: the rows the DELETE statement removes; none without a
\* criterion
DeleteMatching(rows, usrs, o) ==
    IF Criterion(o) = "none" THEN {} ELSE Where(rows, usrs, o, Criterion(o))

InitClear ==
    /\ InitRouter
    /\ seed.accounts = <<>>
    /\ draws = [p \in Procs |-> 0]
    /\ randomBytes = <<>>
    /\ generated = <<>>
    /\ stored = <<>>
    /\ funded = <<>>
    /\ users = TwoUsers
    /\ sessions \in SessionSeeds
    /\ requests = <<>>
    /\ handle = OpenedHandle
    /\ script \in {[NoScript EXCEPT !.pc = "list", !.opts = o] : o \in OptInputs}

\* run, lines 41-59: the listing; the script ends on an empty listing and on
\* --dry
ScriptList ==
    /\ script.pc = "list"
    /\ LET rows == listMatching(sessions, users, script.opts)
       IN  script' = [script EXCEPT
              !.listed = rows,
              !.pc = IF rows = {} \/ script.opts.dry THEN "done" ELSE "delete"]
    /\ UNCHANGED <<routerVars, now, users, sessions, requests, handle>>

\* run, lines 61-79: the deletion by the same criterion
ScriptDelete ==
    /\ script.pc = "delete"
    /\ LET rows == DeleteMatching(sessions, users, script.opts)
       IN  /\ sessions' = sessions \ rows
           /\ script' = [script EXCEPT !.deleted = rows, !.pc = "done"]
    /\ UNCHANGED <<routerVars, now, users, requests, handle>>

\* the server process meanwhile: the session insert of a login (auth.ts
\* line 181)
ServerLogin(userId) ==
    /\ SessionOf(sessions, JwtSign(userId, now)) = <<>>
    /\ sessions' = sessions \cup {SessionRow(userId, JwtSign(userId, now), now + SevenDays)}
    /\ UNCHANGED <<routerVars, now, users, requests, handle, script>>

\* the server process meanwhile: the session delete of a logout (auth.ts
\* line 210)
ServerLogout(token) ==
    /\ SessionOf(sessions, token) # <<>>
    /\ sessions' = DeleteSession(sessions, token)
    /\ UNCHANGED <<routerVars, now, users, requests, handle, script>>

ClearNext ==
    \/ ScriptList
    \/ ScriptDelete
    \/ \E u \in UserIds : ServerLogin(u)
    \/ \E t \in TokenInputs : ServerLogout(t)
    \/ SessionTick

SpecClear == InitClear /\ [][ClearNext]_vars

\* ------------------------------------------------ generateAccountNumber
\* Numbers up to 2^40 are kept as two limbs, hi * Limb + lo with lo < Limb.
Limb == 100000
Wide(hi, lo) == [hi |-> hi, lo |-> lo]

\* buf.readUIntBE(0, 5): one byte more, most significant first
ShiftIn(v, byte) ==
    LET lo == v.lo * 256 + byte
    IN  Wide(v.hi * 256 + lo \div Limb, lo % Limb)

ReadUIntBE(buf) ==
    ShiftIn(ShiftIn(ShiftIn(ShiftIn(ShiftIn(Wide(0, 0), buf[1]), buf[2]), buf[3]), buf[4]), buf[5])

\* the literals 9000000000 and 1000000000
NineBillion == Wide(90000, 0)
OneBillion == Wide(10000, 0)

\* v % m for a modulus that is a multiple of Limb
WideMod(v, m) == Wide(v.hi % m.hi, v.lo)

WideAdd(a, b) ==
    LET lo == a.lo + b.lo
    IN  Wide(a.hi + b.hi + lo \div Limb, lo % Limb)

\* Number.prototype.toString of a non-negative integer below Limb * Limb
RECURSIVE Decimal(_)
Decimal(n) ==
    IF n < 10 THEN <<DigitChar(n)>> ELSE Append(Decimal(n \div 10), DigitChar(n % 10))

RECURSIVE PadLeft(_, _)
PadLeft(s, len) == IF Len(s) >= len THEN s ELSE PadLeft(<<"0">> \o s, len)

WideToString(v) ==
    IF v.hi = 0 THEN Decimal(v.lo) ELSE Decimal(v.hi) \o PadLeft(Decimal(v.lo), 5)

\* a number reduced modulo 10^10
generateAccountNumberTenBillion(buf) ==
    WideToString(WideAdd(WideMod(ReadUIntBE(buf), Wide(100000, 0)), OneBillion))

\* lines 10-15: ((randomNum % 9000000000) + 1000000000).toString()
generateAccountNumber(buf) ==
    WideToString(WideAdd(WideMod(ReadUIntBE(buf), NineBillion), OneBillion))

\* byte values crypto.randomBytes(5) may give, among them the bytes of
\* 8999999999 (02 18 71 19 ff), 9000000000 (02 18 71 1a 00) and 2^40 - 1
ByteSamples == {0, 1, 2, 24, 25, 26, 113, 255}

InitGenerate ==
    /\ InitRouter
    /\ seed.accounts = <<>>
    /\ draws = [p \in Procs |-> 0]
    /\ randomBytes \in [1..5 -> ByteSamples]
    /\ generated = <<>>
    /\ stored = <<>>
    /\ funded = <<>>
    /\ InitBeyond

Generate ==
    /\ generated = <<>>
    /\ generated' = generateAccountNumber(randomBytes)
    /\ UNCHANGED <<accounts, transactions, now, calls, seed, draws, randomBytes, stored, funded, beyond>>

SpecGenerate == InitGenerate /\ [][Generate]_vars

\* ================================================================ claims
Done(p) == calls[p].pc = "done"
InFlight(p) == calls[p].pc \notin {"idle", "done"}
IsFund(p) == calls[p].op = "fundAccount"
Succeeded(p) == Done(p) /\ calls[p].result.code = "OK"

\* the balance an account had before any call of this run
StartingBalance(id) == IF id <= Len(seed.accounts) THEN seed.accounts[id].balance ELSE 0

RECURSIVE SumOver(_, _)
SumOver(S, f) ==
    IF S = {} THEN 0
    ELSE LET x == CHOOSE y \in S : TRUE IN f[x] + SumOver(S \ {x}, f)

\* the normalized amounts of the fundings of account id that returned success
Credited(id) ==
    SumOver({p \in Procs : IsFund(p) /\ Succeeded(p) /\ calls[p].accountId = id},
            [p \in Procs |-> calls[p].amount])

\* the completed ledger entries of account id, summed in cents
LedgerSum(txs, id) ==
    LET rows == SelectSeq(txs, LAMBDA t : t.accountId = id /\ t.status = "completed")
    IN  SeqSum([i \in 1..Len(rows) |-> rows[i].amount])

BalanceOf(accts, id) ==
    IF id \in AccountIds(accts) THEN AccountById(accts, id)[1].balance ELSE 0

C2_Indivisible ==
    [][\A id \in AccountIds(accounts') :
          LedgerSum(transactions', id) - LedgerSum(transactions, id)
            = BalanceOf(accounts', id) - BalanceOf(accounts, id)]_vars

\* a funding has committed while another call (an observer) is between two
\* of its store statements
C2_Witness ==
    \E p, q \in Procs :
        /\ IsFund(p) /\ Succeeded(p) /\ InFlight(q)
        /\ LedgerSum(transactions, calls[p].accountId) > 0

C4_RollbackOnStoreFailure ==
    [][\A p \in Procs :
          (calls[p].pc = "txn" /\ calls'[p].pc = "done" /\ calls'[p].fault # "none")
            => /\ accounts' = accounts
               /\ transactions' = transactions
               /\ calls'[p].result.code = "INTERNAL_SERVER_ERROR"]_vars

\* a funding failed after its ledger insert, and one after its balance update
C4_Witness ==
    \E p \in Procs :
        /\ IsFund(p) /\ Done(p) /\ calls[p].fault \in {"update", "select"}
        /\ calls[p].result.code = "INTERNAL_SERVER_ERROR"

\* C5: in every reachable state a user owns at most one account of each
\* account type, also after concurrent createAccount calls of one user.
C5_OneAccountPerType ==
    \A i, j \in 1..Len(accounts) :
        (accounts[i].userId = accounts[j].userId
           /\ accounts[i].accountType = accounts[j].accountType) => i = j

\* the caller of call c owns an account of the type c asks for
OwnsType(c, accts) ==
    \E i \in 1..Len(accts) :
        accts[i].userId = c.user /\ accts[i].accountType = c.accountType

\* C6: a createAccount call that arrives when its caller already owns an
\* account of the requested type ends at once with CONFLICT and the message
\* naming the type, and the accounts table is left as it was.
C6_DuplicateTypeConflict ==
    [][\A p \in Procs :
          (calls[p].pc = "idle" /\ calls'[p].op = "createAccount"
             /\ calls'[p].user \in Users /\ OwnsType(calls'[p], accounts))
            => /\ calls'[p].pc = "done"
               /\ calls'[p].result.code = "CONFLICT"
               /\ calls'[p].result.message = {ConflictMessage(calls'[p].accountType)}
               /\ accounts' = accounts]_vars

\* a createAccount call was refused because an earlier createAccount call of
\* the same user had made an account of that type
C6_Witness ==
    \E p, q \in Procs :
        /\ calls[p].op = "createAccount" /\ Done(p)
        /\ calls[p].result.code = "CONFLICT"
        /\ calls[q].op = "createAccount" /\ Succeeded(q)
        /\ calls[q].user = calls[p].user /\ calls[q].accountType = calls[p].accountType

\* the account call c names exists and belongs to another user
Foreign(c, accts) ==
    \E i \in 1..Len(accts) : accts[i].id = c.accountId /\ accts[i].userId # c.user
\* the account call c names does not exist
Missing(c, accts) == c.accountId \notin AccountIds(accts)

ByAccountId(c) == c.op \in {"fundAccount", "getTransactions"} /\ c.user \in Users

\* C7: a fundAccount or getTransactions call naming an account of another
\* user ends with the same result (code and message) as the same call naming
\* an account that does not exist, and the step that ends either call leaves
\* both tables as they were.
C7_UniformNotFound ==
    [][/\ \A p, q \in Procs :
            (/\ ByAccountId(calls'[p]) /\ calls'[p].pc = "done"
             /\ ByAccountId(calls'[q]) /\ calls'[q].pc = "done"
             /\ calls'[p].op = calls'[q].op
             /\ calls'[p].raw = calls'[q].raw /\ calls'[p].source = calls'[q].source
             /\ Foreign(calls'[p], accounts') /\ Missing(calls'[q], accounts'))
              => calls'[p].result = calls'[q].result
       /\ \A p \in Procs :
            (/\ ByAccountId(calls'[p]) /\ calls[p].pc # "done" /\ calls'[p].pc = "done"
             /\ (Foreign(calls'[p], accounts') \/ Missing(calls'[p], accounts')))
              => accounts' = accounts /\ transactions' = transactions]_vars

\* one call named another user's account, one a missing account, and both
\* were answered NOT_FOUND
C7_Witness ==
    \E p, q \in Procs :
        /\ ByAccountId(calls[p]) /\ ByAccountId(calls[q]) /\ calls[p].op = calls[q].op
        /\ Done(p) /\ Done(q)
        /\ Foreign(calls[p], accounts) /\ Missing(calls[q], accounts)
        /\ calls[p].result = AccountNotFound /\ calls[q].result = AccountNotFound

\* the call has a user and its input passes the schema of fundAccount
ValidFund(c) ==
    /\ c.op = "fundAccount" /\ c.user \in Users
    /\ ParseFundInput(c.raw, c.source).issues = {}

\* C8: an authenticated fundAccount call whose input passes the schema and
\* whose normalized amount is below one cent ends with BAD_REQUEST "Amount
\* must be at least $0.01" without executing any store statement.
C8_AmountTooSmall ==
    \A p \in Procs :
        (ValidFund(calls[p]) /\ ParseFundInput(calls[p].raw, calls[p].source).cents < 1)
          => /\ Done(p)
             /\ calls[p].result = Failure("BAD_REQUEST", {"Amount must be at least $0.01"})
             /\ ~calls[p].touched

\* the amounts "0" and "0.00" were both refused as too small
C8_Witness ==
    \E p, q \in Procs :
        /\ IsFund(p) /\ IsFund(q)
        /\ calls[p].raw.text = <<"0">> /\ calls[q].raw.text = <<"0", ".", "0", "0">>
        /\ calls[p].result = AmountTooSmall /\ calls[q].result = AmountTooSmall

\* routingNumber absent, or present and not exactly nine digits
BadRouting(r) ==
    \/ r = <<>>
    \/ Len(r[1]) # 9
    \/ \E i \in 1..Len(r[1]) : r[1][i] \notin Digits

\* C9: an authenticated fundAccount call with a bank funding source whose
\* routingNumber is absent or not nine digits ends with BAD_REQUEST carrying
\* the routing-number issue and has executed no store statement of the
\* handler; a card funding source never raises the routing-number issue.
C9_InvalidFundingSource ==
    \A p \in Procs :
        (IsFund(p) /\ calls[p].user \in Users) =>
            /\ (calls[p].source.type = "bank" /\ BadRouting(calls[p].source.routingNumber))
                 => /\ Done(p)
                    /\ calls[p].result.code = "BAD_REQUEST"
                    /\ RoutingIssue \in calls[p].result.message
                    /\ ~calls[p].touched
            /\ calls[p].source.type = "card" => RoutingIssue \notin calls[p].result.message

\* a bank funding without routingNumber and one with eight digits were refused
C9_Witness ==
    \E p, q \in Procs :
        /\ IsFund(p) /\ IsFund(q)
        /\ calls[p].source = Bank(<<>>) /\ calls[q].source = Bank(Routing8)
        /\ RoutingIssue \in calls[p].result.message
        /\ RoutingIssue \in calls[q].result.message

\* the account call c names is owned by its caller and has the given status
OwnedWithStatus(c, accts, status) ==
    \E i \in 1..Len(accts) :
        accts[i].id = c.accountId /\ accts[i].userId = c.user /\ accts[i].status = status

\* C10: an authenticated fundAccount call with valid input and an amount of
\* at least one cent, on an account its caller owns whose status is pending
\* or closed, ends with BAD_REQUEST "Account is not active", and the step
\* that ends it leaves both tables as they were.
C10_AccountNotActive ==
    [][\A p \in Procs :
          (/\ ValidFund(calls'[p]) /\ calls'[p].amount >= 1 /\ calls'[p].pc = "done"
           /\ \E st \in {"pending", "closed"} : OwnedWithStatus(calls'[p], accounts', st))
            => /\ calls'[p].result = Failure("BAD_REQUEST", {"Account is not active"})
               /\ (calls[p].pc # "done" => accounts' = accounts /\ transactions' = transactions)]_vars

\* a funding of a closed account and a funding of a pending account were refused
C10_Witness ==
    \E p, q \in Procs :
        /\ IsFund(p) /\ IsFund(q)
        /\ OwnedWithStatus(calls[p], accounts, "closed")
        /\ OwnedWithStatus(calls[q], accounts, "pending")
        /\ calls[p].result = AccountNotActive /\ calls[q].result = AccountNotActive

\* C11: a successful fundAccount call returns the ledger entry that this very
\* call inserted and the balance of the account right after this call's
\* update, also when another entry of the account has the same created_at.
C11_ReturnsOwnEntry ==
    [][\A p \in Procs :
          (calls[p].pc = "txn" /\ calls'[p].pc = "done" /\ calls'[p].result.code = "OK")
            => /\ Len(transactions') = Len(transactions) + 1
               /\ calls'[p].result.data = <<Last(transactions')>>
               /\ calls'[p].result.newBalance = BalanceOf(accounts', calls[p].accountId)]_vars

\* the ledger entries written since the server started
NewEntries == (Len(seed.transactions) + 1)..Len(transactions)

\* the successful fundings of account id with normalized amount a
Fundings(id, a) ==
    {p \in Procs : IsFund(p) /\ Succeeded(p) /\ calls[p].accountId = id /\ calls[p].amount = a}

\* C12: the new ledger entries are exactly the successful fundAccount calls:
\* for every account and amount there are as many new entries with that
\* account reference and amount as there are successful calls funding that
\* account with that normalized amount, so N successes leave N new entries.
C12_OneEntryPerSuccess ==
    /\ \A i \in NewEntries : transactions[i].accountId \in AccountIdInputs
    /\ \A id \in AccountIdInputs :
         \A a \in {calls[p].amount : p \in Procs} \cup {transactions[i].amount : i \in NewEntries} :
            Cardinality({i \in NewEntries : transactions[i].accountId = id
                                              /\ transactions[i].amount = a})
              = Cardinality(Fundings(id, a))

\* two calls funded the same account with the same amount and both succeeded
C12_Witness ==
    \E p, q \in Procs :
        /\ p # q /\ p \in Fundings(calls[p].accountId, calls[p].amount)
        /\ q \in Fundings(calls[p].accountId, calls[p].amount)
        /\ Cardinality(NewEntries) = 2

\* C13: in every reachable state no two accounts have the same account
\* number, also when concurrent createAccount calls have drawn the same number.
C13_UniqueAccountNumbers ==
    \A i, j \in 1..Len(accounts) :
        accounts[i].accountNumber = accounts[j].accountNumber => i = j

\* two createAccount calls drew the same number; one inserted its account,
\* the insert of the other was refused by the store
C13_Witness ==
    \E p, q \in Procs :
        /\ calls[p].op = "createAccount" /\ calls[q].op = "createAccount"
        /\ calls[p].accountNumber = calls[q].accountNumber
        /\ Succeeded(p)
        /\ Done(q) /\ calls[q].result.code = "INTERNAL_SERVER_ERROR"
        /\ calls[q].result.message = {"UNIQUE constraint failed: accounts.account_number"}

\* C14: account-number allocation makes at most RetryCeiling draws: a call
\* that is still in the loop has made fewer draws than the ceiling, because
\* after the last colliding draw it ends with AllocationExhausted.
C14_BoundedDraws ==
    \A p \in Procs :
        /\ draws[p] <= RetryCeiling
        /\ calls[p].pc = "draw" => draws[p] < RetryCeiling

\* C15: for every 5-byte draw generateAccountNumber returns a string of
\* exactly ten decimal digits that does not start with "0", that is, a
\* number between 1,000,000,000 and 9,999,999,999.
C15_TenDigitNumber ==
    generated # <<>> =>
        /\ Len(generated) = 10
        /\ AllDigits(generated)
        /\ generated[1] # "0"

\* the draw 8999999999, the greatest residue, gave 9999999999
C15_Witness ==
    /\ randomBytes = <<2, 24, 113, 25, 255>>
    /\ generated = <<"9", "9", "9", "9", "9", "9", "9", "9", "9", "9">>

\* C16: a successful createAccount call returns the account row that this
\* call inserted: the row carries the account number the call drew, its owner
\* is the caller, its type the requested type, its balance 0.00 and its
\* status active.
C16_ReturnsCreatedAccount ==
    \A p \in Procs :
        (calls[p].op = "createAccount" /\ Succeeded(p)) =>
            LET row == calls[p].result.data[1]
            IN  /\ row.accountNumber = calls[p].accountNumber
                /\ row.id > Len(seed.accounts)
                /\ row.userId = calls[p].user
                /\ row.accountType = calls[p].accountType
                /\ row.balance = 0
                /\ row.status = "active"

\* C17: the ledger is append-only: every step keeps every existing ledger
\* entry as it is (amount, account reference, type, status, timestamps) and
\* in its place, and never shortens the ledger.
C17_LedgerAppendOnly ==
    [][/\ Len(transactions') >= Len(transactions)
       /\ \A i \in 1..Len(transactions) : transactions'[i] = transactions[i]]_vars

IsGetTx(p) == calls[p].op = "getTransactions"

\* an entry written by a funding of this run was later returned by
\* getTransactions, and the ledger holds older entries as well
C17_Witness ==
    \E p \in Procs :
        /\ IsGetTx(p) /\ Succeeded(p)
        /\ Len(seed.transactions) > 0
        /\ \E k \in 1..Len(calls[p].result.data) : calls[p].result.data[k].id \in NewEntries

\* the step is the committing step of a funding of account id
FundingCommits(p, id) ==
    /\ calls[p].op = "fundAccount" /\ calls[p].pc = "txn" /\ calls[p].accountId = id
    /\ calls'[p].pc = "done" /\ calls'[p].result.code = "OK"

\* C18: every step keeps every existing account with its id, owner, account
\* number, type and status and never removes one; a balance changes only in
\* the committing step of a fundAccount call on that account; a step of a
\* getAccounts, getTransactions or createAccount call changes no balance.
C18_AccountsFrame ==
    [][/\ Len(accounts') >= Len(accounts)
       /\ \A i \in 1..Len(accounts) :
            /\ accounts'[i] = [accounts[i] EXCEPT !.balance = accounts'[i].balance]
            /\ accounts'[i].balance # accounts[i].balance
                 => \E p \in Procs : FundingCommits(p, accounts[i].id)
       /\ (\E p \in Procs :
              /\ calls'[p] # calls[p]
              /\ calls'[p].op \in {"getAccounts", "getTransactions", "createAccount"})
            => \A i \in 1..Len(accounts) : accounts'[i].balance = accounts[i].balance]_vars

\* an account the store started with has been funded and another account
\* has been created next to it
C18_Witness ==
    /\ Len(accounts) > Len(seed.accounts)
    /\ \E i \in 1..Len(seed.accounts) : accounts[i].balance # seed.accounts[i].balance

\* C19: two successful getTransactions calls of one caller for one account
\* with no funding of the account committed between their reads (the ledger
\* only grows, so: both saw equally many entries) return identical
\* sequences: the same entries in the same order with the same enrichment.
C19_RepeatableRead ==
    \A p, q \in Procs :
        (/\ IsGetTx(p) /\ IsGetTx(q) /\ Succeeded(p) /\ Succeeded(q)
         /\ calls[p].user = calls[q].user /\ calls[p].accountId = calls[q].accountId
         /\ Len(calls[p].result.data) = Len(calls[q].result.data))
          => calls[p].result = calls[q].result

\* two calls listed the same account, which has two entries
C19_Witness ==
    \E p, q \in Procs :
        /\ p # q /\ IsGetTx(p) /\ IsGetTx(q) /\ Succeeded(p) /\ Succeeded(q)
        /\ calls[p].user = calls[q].user /\ calls[p].accountId = calls[q].accountId
        /\ Len(calls[p].result.data) = 2 /\ Len(calls[q].result.data) = 2

\* C20: the ledger read of a getTransactions call on an account of its caller
\* takes every ledger entry whose account reference is the requested account,
\* each once, and no entry of another account; a successful call returns the
\* entries it read, in that order, each with the current type of the account
\* as accountType.
C20_AllAndOnlyOwnEntries ==
    [][\A p \in Procs :
          /\ (calls[p].pc = "list" /\ calls'[p].pc # "list" /\ calls[p].account # <<>>)
               => /\ {calls'[p].rows[k] : k \in 1..Len(calls'[p].rows)}
                       = {transactions[i] : i \in {j \in 1..Len(transactions) :
                                                     transactions[j].accountId = calls[p].accountId}}
                  /\ \A k, l \in 1..Len(calls'[p].rows) :
                        calls'[p].rows[k] = calls'[p].rows[l] => k = l
          /\ (calls[p].pc \in {"list", "enrich"} /\ calls'[p].pc = "done"
                /\ calls'[p].result.code = "OK")
               => /\ Len(calls'[p].result.data) = Len(calls'[p].rows)
                  /\ \A k \in 1..Len(calls'[p].rows) :
                        /\ \A f \in DOMAIN calls'[p].rows[k] :
                              calls'[p].result.data[k][f] = calls'[p].rows[k][f]
                        /\ calls'[p].result.data[k].accountType
                              = AccountById(accounts', calls[p].accountId)[1].accountType]_vars

\* a call returned the entries of its account while the ledger also held an
\* entry of another account
C20_Witness ==
    \E p \in Procs :
        /\ IsGetTx(p) /\ Succeeded(p) /\ Len(calls[p].result.data) >= 1
        /\ \E i \in 1..Len(transactions) : transactions[i].accountId # calls[p].accountId

\* a sign-free decimal literal: digits with at most one ".", an integer part
\* that is "0" or does not start with "0", and after the "." one or two digits
SignFreeDecimal(t) ==
    LET dots == {i \in 1..Len(t) : t[i] = "."}
        intLen == IF dots = {} THEN Len(t) ELSE (CHOOSE i \in dots : TRUE) - 1
    IN  /\ \A i \in 1..Len(t) : t[i] \in Digits \cup {"."}
        /\ Cardinality(dots) <= 1
        /\ intLen >= 1
        /\ intLen > 1 => t[1] # "0"
        /\ dots # {} => Len(t) - intLen - 1 \in {1, 2}

\* C21: fundAccount accepts an amount exactly when its text (a string
\* trimmed, a number as String renders it) is a sign-free decimal literal;
\* every other text ends the call at once with BAD_REQUEST and the
\* amount-format issue, and the step leaves both tables as they were.
C21_AmountGrammar ==
    [][\A p \in Procs :
          (calls[p].pc = "idle" /\ calls'[p].op = "fundAccount")
            => IF SignFreeDecimal(Preprocess(calls'[p].raw))
               THEN AmountFormatIssue \notin calls'[p].result.message
               ELSE /\ calls'[p].pc = "done"
                    /\ calls'[p].result = Failure("BAD_REQUEST", {AmountFormatIssue})
                    /\ ~calls'[p].touched
                    /\ accounts' = accounts /\ transactions' = transactions]_vars

\* the number 1.005, with three fractional digits, was refused, and the
\* string "2.50" was accepted and credited
C21_Witness ==
    /\ calls[1].raw = Num(<<"1", ".", "0", "0", "5">>)
    /\ calls[1].result = Failure("BAD_REQUEST", {AmountFormatIssue})
    /\ calls[2].raw = Str(<<"2", ".", "5", "0">>)
    /\ Succeeded(2) /\ calls[2].amount = 250

\* C23: a fundAccount call with the amount 1.005 on an active account of its
\* caller succeeds and credits 1.01 or 1.00; a funding with "2.50" that
\* commits raises the balance by exactly 2.50.
C23_RoundsThenAdds ==
    [][\A p \in Procs :
          /\ (/\ calls'[p].op = "fundAccount" /\ calls'[p].pc = "done"
              /\ Preprocess(calls'[p].raw) = <<"1", ".", "0", "0", "5">>
              /\ OwnedWithStatus(calls'[p], accounts', "active"))
               => /\ calls'[p].result.code = "OK"
                  /\ calls'[p].amount \in {100, 101}
          /\ (/\ FundingCommits(p, calls[p].accountId)
              /\ Preprocess(calls[p].raw) = <<"2", ".", "5", "0">>)
               => BalanceOf(accounts', calls[p].accountId)
                    = BalanceOf(accounts, calls[p].accountId) + 250]_vars

\* the value a text of the accepted grammar denotes: its integer part and
\* its cents
ValueOf(t) ==
    IF Len(t) >= 3 /\ t[Len(t) - 2] = "."
    THEN [int |-> SubSeq(t, 1, Len(t) - 3),
          cents |-> 10 * DigitVal(t[Len(t) - 1]) + DigitVal(t[Len(t)])]
    ELSE IF Len(t) >= 2 /\ t[Len(t) - 1] = "."
    THEN [int |-> SubSeq(t, 1, Len(t) - 2), cents |-> 10 * DigitVal(t[Len(t)])]
    ELSE [int |-> t, cents |-> 0]

\* C22: the normalized amount of every accepted amount text has whole cents
\* and is the value the text denotes.
C22_NormalizedIsInput ==
    \A i \in 1..Len(funded) :
        /\ funded[i].amount.cents \in 0..99
        /\ funded[i].amount = ValueOf(funded[i].text)

\* integer cents: centsStep of the test script, over the amounts credited
RECURSIVE CentsBalance(_)
CentsBalance(amounts) ==
    IF amounts = <<>> THEN [int |-> <<"0">>, cents |-> 0]
    ELSE LET before == CentsBalance(SubSeq(amounts, 1, Len(amounts) - 1))
             a == Last(amounts).amount
             c == before.cents + a.cents
         IN  [int |-> AddDigits(before.int, a.int, c \div 100), cents |-> c % 100]

\* C29: the stored balance is the double of a two-decimal value, and that
\* value is the balance computed in integer cents from the amounts credited
\* (balances carry no sign: every credited amount is at least 0.01).
C29_BalanceInCents ==
    /\ stored = SqlRound(stored)
    /\ Fixed2(stored) = CentsBalance(funded)

\* the fundings of account id that returned success
SucceededFundings(id) ==
    {p \in Procs : IsFund(p) /\ Succeeded(p) /\ calls[p].accountId = id}

\* the orders in which the calls of S can be put
OrdersOf(S) ==
    {f \in [1..Cardinality(S) -> S] : \A i, j \in 1..Cardinality(S) : f[i] = f[j] => i = j}

NewEntriesOf(id) == {i \in NewEntries : transactions[i].accountId = id}

\* C25: in the two-step variant, when two fundings of one account have both
\* read the account before either wrote its balance and both have returned
\* (no other funding of the account being under way), both ledger entries
\* exist and the final balance is less than the starting
\* balance plus both amounts.
C25_TwoStepLosesUpdate ==
    \A id \in AccountIds(accounts) :
        LET S == SucceededFundings(id)
        IN  (/\ Cardinality(S) = 2
             /\ \A p \in S : calls[p].account[1].balance = StartingBalance(id)
             /\ \A p \in Procs : (IsFund(p) /\ calls[p].accountId = id) => Done(p))
            => /\ Cardinality(NewEntriesOf(id)) = 2
               /\ BalanceOf(accounts, id) < StartingBalance(id) + Credited(id)

C25_Witness ==
    /\ SucceededFundings(1) = {1, 2}
    /\ calls[1].account[1].balance = StartingBalance(1)
    /\ calls[2].account[1].balance = StartingBalance(1)
    /\ Cardinality(NewEntriesOf(1)) = 2
    /\ BalanceOf(accounts, 1) < StartingBalance(1) + calls[1].amount + calls[2].amount

\* the step is a step of a fundAccount call p
FundingStep(p) == calls'[p] # calls[p] /\ calls'[p].op = "fundAccount"

\* C26: a step of a fundAccount call on account A leaves the row (so the
\* balance) and the ledger entries of every other account as they were,
\* whatever the other calls are doing.
C26_OtherAccountsUntouched ==
    [][\A p \in Procs :
          FundingStep(p) =>
            /\ \A i \in 1..Len(accounts) :
                 accounts[i].id # calls'[p].accountId => accounts'[i] = accounts[i]
            /\ \A id \in AccountIdInputs \cup AccountIds(accounts) :
                 id # calls'[p].accountId
                    => TransactionsOf(transactions', id) = TransactionsOf(transactions, id)]_vars

\* a funding has succeeded while another account holds money and entries
C26_Witness ==
    \E p \in Procs :
        /\ IsFund(p) /\ Succeeded(p)
        /\ \E i \in 1..Len(accounts) :
             /\ accounts[i].id # calls[p].accountId
             /\ accounts[i].balance > 0
             /\ TransactionsOf(transactions, accounts[i].id) # <<>>

\* C27: the ids of the ledger grow strictly in insertion order, and an entry
\* a step inserts has an id greater than the id of every entry already
\* there, so that no id is used twice.
C27_IdsIncrease ==
    /\ [](\A i, j \in 1..Len(transactions) :
            i < j => transactions[i].id < transactions[j].id)
    /\ [][\A j \in (Len(transactions) + 1)..Len(transactions') :
            \A i \in 1..Len(transactions) : transactions[i].id < transactions'[j].id]_vars

\* two fundings have committed one after the other on top of older entries
C27_Witness ==
    /\ Len(seed.transactions) > 0
    /\ Cardinality(NewEntries) = 2
    /\ \A p \in Procs : IsFund(p) /\ Succeeded(p)

\* C28: every ledger entry a fundAccount call inserted is a deposit, is
\* completed (never pending), has an amount of at least one cent in whole
\* cents, and has its creation time equal to its processing time.
C28_DepositEntries ==
    \A i \in NewEntries :
        /\ transactions[i].type = "deposit"
        /\ transactions[i].status = "completed"
        /\ transactions[i].amount \in Nat /\ transactions[i].amount >= 1
        /\ transactions[i].createdAt = transactions[i].processedAt

\* fundings of one cent and of more have been entered
C28_Witness ==
    /\ \E i \in NewEntries : transactions[i].amount = 1
    /\ \E i \in NewEntries : transactions[i].amount > 1 /\ transactions[i].createdAt > 1

\* the caller of c owns the account c names, whatever its status
OwnsNamed(c, accts) ==
    \E status \in {"active", "pending", "closed"} : OwnedWithStatus(c, accts, status)

\* C30: a getTransactions call of an authenticated caller that arrives when
\* the caller owns the account, whatever the account's status, ends with
\* success, and one that arrives when the caller does not own it ends with
\* NOT_FOUND "Account not found"; the call ends in no other way.
C30_OnlyNotFound ==
    [][\A p \in Procs :
          /\ (calls[p].pc = "idle" /\ calls'[p].op = "getTransactions" /\ calls'[p].pc = "list")
                => (calls'[p].account # <<>> <=> OwnsNamed(calls'[p], accounts))
          /\ (calls[p].op = "getTransactions" /\ calls[p].pc \in {"list", "enrich"}
                /\ calls'[p].pc = "done")
                => calls'[p].result = IF calls[p].account # <<>>
                                      THEN Success(calls'[p].result.data, 0)
                                      ELSE AccountNotFound]_vars

\* the entries of a closed account have been listed for its owner, and a
\* call naming an account the caller does not own has failed
C30_Witness ==
    \E p, q \in Procs :
        /\ IsGetTx(p) /\ Succeeded(p) /\ calls[p].result.data # <<>>
        /\ OwnedWithStatus(calls[p], accounts, "closed")
        /\ IsGetTx(q) /\ Done(q) /\ calls[q].result = AccountNotFound

\* C31: the step of a getAccounts call of an authenticated caller returns
\* every account whose owner is the caller, each once, and no account of
\* another user.
C31_OwnAccountsOnly ==
    [][\A p \in Procs :
          (calls[p].pc = "idle" /\ calls'[p].op = "getAccounts" /\ calls'[p].user # NoUser)
            => LET data == calls'[p].result.data
               IN  /\ calls'[p].result.code = "OK"
                   /\ \A i \in 1..Len(accounts) :
                        Cardinality({k \in 1..Len(data) : data[k] = accounts[i]})
                          = IF accounts[i].userId = calls'[p].user THEN 1 ELSE 0
                   /\ \A k \in 1..Len(data) : \E i \in 1..Len(accounts) : data[k] = accounts[i]]_vars

\* a caller was given its two accounts while another user has an account
C31_Witness ==
    \E p \in Procs :
        /\ calls[p].op = "getAccounts" /\ Succeeded(p)
        /\ Len(calls[p].result.data) = 2
        /\ \E i \in 1..Len(accounts) : accounts[i].userId # calls[p].user

\* the step is the arrival of a call of p
ArrivalStep(p) == calls[p].pc = "idle" /\ calls'[p].pc # "idle"

\* C32: a createAccount, getAccounts, fundAccount or getTransactions call
\* whose context holds no user ends on arrival with UNAUTHORIZED, before any
\* statement of its handler, and its step changes no account and no ledger
\* entry.
C32_UnauthorizedWithoutUser ==
    [][\A p \in Procs :
          (ArrivalStep(p) /\ calls'[p].op \in Operations /\ calls'[p].user = NoUser)
            => /\ calls'[p].pc = "done"
               /\ calls'[p].result = Unauthorized
               /\ ~calls'[p].touched
               /\ accounts' = accounts
               /\ transactions' = transactions]_vars

\* a funding and an account opening without a user have been refused on a
\* store that holds accounts and entries
C32_Witness ==
    /\ calls[1].op = "fundAccount" /\ calls[1].result = Unauthorized
    /\ calls[2].op = "createAccount" /\ calls[2].result = Unauthorized
    /\ accounts # <<>> /\ transactions # <<>>

\* the step in which the context of request c is completed, and the session
\* row the request found (or would have found) for its token
ContextDone(c) ==
    /\ requests[c].pc \in {"idle", "decide"} /\ requests'[c].pc = "handler"
    /\ requests'[c].op \in {"protected", "logout"}
StoredSession(c) ==
    IF requests[c].pc = "idle" THEN SessionOf(sessions, requests'[c].token)
    ELSE requests[c].session

\* C33: a request whose token has a stored session that has expired or
\* expires within the safety window gets no user, and after its context is
\* made no session row with that token exists; a request whose session has
\* more lifetime left gets its user and the row is kept.
C33_ExpiringSessionRevoked ==
    [][\A c \in Clients :
          (ContextDone(c) /\ StoredSession(c) # <<>>) =>
             IF Revoked(StoredSession(c)[1].expiresAt, now)
             THEN /\ requests'[c].user = <<>>
                  /\ SessionOf(sessions', requests'[c].token) = <<>>
             ELSE /\ requests'[c].user # <<>>
                  /\ StoredSession(c)[1] \in sessions => StoredSession(c)[1] \in sessions']_vars

\* C34: a request gets a user only if the lookup of its context found a
\* session row with the presented token (and then it is the user the token
\* names); the lookup finds a row exactly when the table holds one with that
\* token, so a validly signed token without a row gets no user.
C34_NoRowNoUser ==
    [][\A c \in Clients :
          /\ (ContextDone(c) /\ requests'[c].user # <<>>)
                => /\ StoredSession(c) # <<>>
                   /\ StoredSession(c)[1].token = requests'[c].token
                   /\ requests'[c].user[1].id = requests'[c].token.userId
          /\ (requests[c].pc = "idle" /\ requests'[c].pc = "decide")
                => (requests'[c].session # <<>>
                      <=> \E r \in sessions : r.token = requests'[c].token)]_vars

\* a validly signed, unexpired token without a session row was refused while
\* the same user holds a session under another token, and a request with a
\* stored session was served
C34_Witness ==
    \E c, d \in Clients :
        /\ requests[c].op = "protected" /\ requests[c].pc = "done"
        /\ requests[c].token.signed /\ JwtVerify(requests[c].token, now)
        /\ requests[c].session = <<>>
        /\ requests[c].result.code = "UNAUTHORIZED"
        /\ \E r \in sessions : r.userId = requests[c].token.userId
        /\ requests[d].op = "protected" /\ requests[d].result.code = "OK"

\* the request is a logout that found its caller authenticated
LoggedOut(c) ==
    /\ requests[c].op = "logout" /\ requests[c].pc = "done"
    /\ requests[c].result.message = "Logged out successfully"

\* C35: the step of a logout of an authenticated request removes the session
\* row of its token and no other row; every request with that token arriving
\* after the logout has returned gets no user; the step of a logout without a
\* user removes nothing; and a logout returns success either way.
C35_LogoutRevokes ==
    /\ [](\A c, d \in Clients :
            (/\ LoggedOut(c) /\ c \in requests[d].after
             /\ requests[d].op \in {"protected", "logout"}
             /\ requests[d].token = requests[c].token)
               => requests[d].user = <<>>)
    /\ [][\A c \in Clients :
            (requests[c].pc = "handler" /\ requests[c].op = "logout" /\ requests'[c].pc = "done")
               => /\ requests'[c].result.code = "OK"
                  /\ sessions' = IF requests[c].user # <<>>
                                 THEN {r \in sessions : r.token # requests[c].token}
                                 ELSE sessions]_vars

\* C36: in every reachable state no two users have the same email and no
\* two users have the same SSN lookup hash; a signup that arrives when a user
\* holds its email or its SSN ends with CONFLICT, and no step of it adds a
\* user or a session.
C36_UniqueEmailAndSsn ==
    /\ [](\A i, j \in 1..Len(users) :
            i # j => /\ users[i].email # users[j].email
                     /\ users[i].ssnHash # users[j].ssnHash)
    /\ [](\A c \in Procs :
            (requests[c].pc = "done" /\ requests[c].taken)
               => requests[c].result.code = "CONFLICT")
    /\ [][\A c \in Procs :
            (requests'[c] # requests[c] /\ requests'[c].taken)
               => users' = users /\ sessions' = sessions]_vars

\* C37: the store handle is opened exactly once and closed at most once
\* whatever shutdown triggers fire, and no step of a request handler issues a
\* store statement when the handle has been closed.
C37_HandleLifecycle ==
    /\ [](handle.opened = 1 /\ handle.closed <= 1)
    /\ [][\A c \in Procs : requests'[c] # requests[c] => handle.state = "open"]_vars

\* C38 as stated: the script, once finished, has deleted exactly the sessions
\* it listed, and nothing under --dry or without a criterion.
C38_DeletesListed ==
    script.pc = "done" =>
        script.deleted = IF script.opts.dry \/ Criterion(script.opts) = "none"
                         THEN {}
                         ELSE script.listed

\* C38 amended: the delete statement removes exactly the sessions matching the
\* criterion when it runs, which are the listed sessions still stored and the
\* matching ones created since the listing; the finished script has deleted
\* nothing under --dry, without a criterion, or after an empty listing.
C38_DeletesMatching ==
    /\ [](script.pc = "done" /\ (script.opts.dry \/ Criterion(script.opts) = "none"
                                   \/ script.listed = {})
             => script.deleted = {})
    /\ [][script.pc = "delete" /\ script'.pc = "done" =>
             /\ ~script.opts.dry
             /\ sessions' = sessions \ script'.deleted
             /\ script'.deleted =
                  IF Criterion(script.opts) = "none"
                  THEN {}
                  ELSE (script.listed \cap sessions)
                         \cup {r \in sessions \ script.listed :
                                 r \in Where({r}, users, script.opts,
                                             Criterion(script.opts))}]_vars

\* the script has deleted a session created after its listing
C38_Witness ==
    /\ script.pc = "done"
    /\ script.deleted \ script.listed # {}
    /\ script.listed \cap script.deleted # {}

====
